---- MODULE Spec2Model ----
(***************************************************************************)
(* dev-timr: the session engine (tracker.js), the local ledger (store.js), *)
(* the durable queue (queue.js), remote delivery (api.js) and the process  *)
(* that drives them (bin/index.js).                                        *)
(*                                                                         *)
(* Node runs one thread.  Code between two awaits that really wait for I/O *)
(* runs without interleaving, so such a block is one step here.  A promise *)
(* that settles without I/O resumes its awaiter in a microtask, before any *)
(* signal, child event or network response is dispatched, so it does not   *)
(* end the block.  A kill of the process can fall between two disk writes  *)
(* of a block; EndSessionCrash models that.                                *)
(*                                                                         *)
(* Three specifications share the actions.  Spec is one run of the command *)
(* line on a machine whose journal is empty, dashboard included.           *)
(* SpecDrain is one run on a machine whose journal may hold an entry of an *)
(* earlier run, so that the startup drain runs; the pause and resume       *)
(* buttons of the dashboard are not pressed in it (they touch isPaused,    *)
(* pauseStartTime and pausedDuration only, which the journal, the ledger   *)
(* and the remote never read).  SpecApi calls the exported functions of    *)
(* tracker.js directly, in any order, without a process exit.              *)
(*                                                                         *)
(* Operators named after functions of the source take the whole program    *)
(* state as a record S and return the state the function leaves.           *)
(***************************************************************************)
EXTENDS Integers, Sequences, FiniteSets, TLC

\* JavaScript null / undefined, where a string is expected
NULL == "null"
\* JavaScript null / undefined, where a number is expected (times, ids and
\* counts of the program are never negative)
NoNum == 0 - 1
\* no credential file
NoAuth == [absent |-> TRUE]

\* ---- bounds -------------------------------------------------------------
\* the clock advances in steps of TickMs, at most MaxTicks times the step
MaxTicks == 2
\* number of startSession calls in SpecApi
MaxSessions == 1
\* one step of the model clock, in seconds (the unit of supabase.expiresAt)
TickSec == 60
\* number of calls of getSessionWithRefresh, refreshToken and logout in
\* SpecAuth
MaxCalls == 2

\* ---- program constants --------------------------------------------------
\* expiresAt * 1000 in getSession
MsPerSec == 1000
\* if (session.syncAttempts < 10) in processQueue
MaxSyncAttempts == 10
\* hoursRemaining < 24 in shouldRefreshToken
RefreshWindowHours == 24

\* one step of the model clock, in milliseconds (the unit of Date.now())
TickMs == TickSec * MsPerSec

\* endSession is invoked by the signal handler and by the child-exit handler
H == {"signal", "childExit"}
\* processQueue runs: the startup drain, and the drain of each addSession
D == {"startup"} \cup H

ErrNotLoggedIn == "Not logged in"
ErrNoUser == "User ID not found"
ErrNoRepo == "Repository info not available"
ErrFetch == "fetch failed"
ErrDuplicate == "duplicate key value violates unique constraint"

VARIABLES
    now,              \* Date.now()
    startTime,        \* tracker.js module state
    currentTaskName,
    sessionClientId,
    isPaused,
    pausedDuration,
    pauseStartTime,
    ledger,           \* .dev-clock.json: the sessions array
    queueFile,        \* ~/.dev-timr/queue.json: {sessions, lastSyncAttempt}
    authFile,         \* ~/.dev-timr/auth.json: NoAuth or the supabase part
    repoInfo,         \* what getRepoInfo() returns in the working directory
    remote,           \* rows of the remote sessions table
    phase,            \* where the process is
    nextUuid,         \* randomUUID(): the next fresh value
    ends,             \* per endSession invocation: where it is
    drains,           \* per processQueue run: its locals and position
    nextEid,          \* history: identity of the next queue entry
    tries,            \* history: syncSession calls per queue entry
    truePaused,       \* history: wall-clock time the session spent paused
    finalized,        \* history: what each endSession computed
    returned,         \* history: what each addSession returned
    deliveries,       \* history: how each completed syncSession call ended
    crashPoint,       \* history: where the last kill fell
    refreshes,        \* refreshToken calls waiting for the Identity Service
    logoutCall,       \* the logout call: where it is, what it returned
    nextCall,         \* history: number of the next call of auth.js
    authLog,          \* history: what each call of auth.js did and returned
    authDisk,         \* ~/.dev-timr/auth.json: the content of the file
    queueDisk,        \* ~/.dev-timr/queue.json: the content of the file
    sealed,           \* history: the last envelope written and its plaintext
    storeLog,         \* history: what the last read or decrypt returned
    ledgerDisk,       \* .dev-clock.json: the content of the file
    writer,           \* the fs.writeFileSync call in progress
    poll,             \* the pollForToken call: its locals and position
    calls,            \* history: the last call of tracker.js and the readings
    summaries,        \* history: what each processQueue run returned
    network,          \* the way to the remote: "up", "down", "back"
    argv,             \* the command line of the last run
    taskInput,        \* history: the argument of the last setTaskName
    loginPc,          \* bin/login.js: where login() is
    migration         \* bin/migrate.js: where migrate() is

vars == <<now, startTime, currentTaskName, sessionClientId, isPaused,
          pausedDuration, pauseStartTime, ledger, queueFile, authFile,
          repoInfo, remote, phase, nextUuid, ends, drains, nextEid, tries,
          truePaused, finalized, returned, deliveries, crashPoint,
          refreshes, logoutCall, nextCall, authLog, authDisk, queueDisk,
          sealed, storeLog, ledgerDisk, writer, poll, calls, summaries,
          network,
          argv,
          taskInput,
          loginPc,
          migration>>

\* the program state as one record
Cur ==
    [now |-> now, startTime |-> startTime,
     currentTaskName |-> currentTaskName, sessionClientId |-> sessionClientId,
     isPaused |-> isPaused, pausedDuration |-> pausedDuration,
     pauseStartTime |-> pauseStartTime, ledger |-> ledger,
     queueFile |-> queueFile, authFile |-> authFile, repoInfo |-> repoInfo,
     remote |-> remote, phase |-> phase, nextUuid |-> nextUuid, ends |-> ends,
     drains |-> drains, nextEid |-> nextEid, tries |-> tries,
     truePaused |-> truePaused, finalized |-> finalized,
     returned |-> returned, deliveries |-> deliveries,
     crashPoint |-> crashPoint, refreshes |-> refreshes,
     logoutCall |-> logoutCall, nextCall |-> nextCall, authLog |-> authLog,
     authDisk |-> authDisk, queueDisk |-> queueDisk, sealed |-> sealed,
     storeLog |-> storeLog, ledgerDisk |-> ledgerDisk, writer |-> writer,
     poll |-> poll, calls |-> calls, summaries |-> summaries,
     network |-> network,
     argv |-> argv,
     taskInput |-> taskInput,
     loginPc |-> loginPc,
     migration |-> migration]

Commit(S) ==
    /\ now' = S.now
    /\ startTime' = S.startTime
    /\ currentTaskName' = S.currentTaskName
    /\ sessionClientId' = S.sessionClientId
    /\ isPaused' = S.isPaused
    /\ pausedDuration' = S.pausedDuration
    /\ pauseStartTime' = S.pauseStartTime
    /\ ledger' = S.ledger
    /\ queueFile' = S.queueFile
    /\ authFile' = S.authFile
    /\ repoInfo' = S.repoInfo
    /\ remote' = S.remote
    /\ phase' = S.phase
    /\ nextUuid' = S.nextUuid
    /\ ends' = S.ends
    /\ drains' = S.drains
    /\ nextEid' = S.nextEid
    /\ tries' = S.tries
    /\ truePaused' = S.truePaused
    /\ finalized' = S.finalized
    /\ returned' = S.returned
    /\ deliveries' = S.deliveries
    /\ crashPoint' = S.crashPoint
    /\ refreshes' = S.refreshes
    /\ logoutCall' = S.logoutCall
    /\ nextCall' = S.nextCall
    /\ authLog' = S.authLog
    /\ authDisk' = S.authDisk
    /\ queueDisk' = S.queueDisk
    /\ sealed' = S.sealed
    /\ storeLog' = S.storeLog
    /\ ledgerDisk' = S.ledgerDisk
    /\ writer' = S.writer
    /\ poll' = S.poll
    /\ calls' = S.calls
    /\ summaries' = S.summaries
    /\ network' = S.network
    /\ argv' = S.argv
    /\ taskInput' = S.taskInput
    /\ loginPc' = S.loginPc
    /\ migration' = S.migration

\* ---- JavaScript values ----------------------------------------------------
Undefined == [t |-> "undefined"]
JNull == [t |-> "null"]
JNum(n) == [t |-> "number", n |-> n]
\* a string, as the sequence of its characters
JStr(s) == [t |-> "string", s |-> s]
JArr(items) == [t |-> "array", items |-> items]
JObj(fields) == [t |-> "object", fields |-> fields]

\* v.name, for v other than null and undefined
Get(v, name) ==
    IF v.t = "object" /\ name \in DOMAIN v.fields THEN v.fields[name]
    ELSE Undefined

\* the value counts as true in a condition
Truthy(v) ==
    /\ v.t \notin {"undefined", "null"}
    /\ ~(v.t = "number" /\ v.n = 0)
    /\ ~(v.t = "string" /\ Len(v.s) = 0)

\* ---- JavaScript coercions -----------------------------------------------
\* !x for a number or null
Falsy(x) == x = NoNum \/ x = 0
\* null in arithmetic is 0
Num(x) == IF x = NoNum THEN 0 ELSE x

\* ---- auth.js ------------------------------------------------------------
\* getSession: NoAuth without a record, else the record with its expired flag
getSession(S) ==
    IF S.authFile = NoAuth THEN NoAuth
    ELSE IF /\ ~Falsy(S.authFile.expiresAt)
            /\ S.now > S.authFile.expiresAt * MsPerSec
         THEN [auth |-> S.authFile, expired |-> TRUE]
         ELSE [auth |-> S.authFile, expired |-> FALSE]

isLoggedIn(S) ==
    LET session == getSession(S) IN
    session # NoAuth /\ ~session.expired

\* getCurrentUser().id
getCurrentUserId(S) ==
    IF getSession(S) = NoAuth THEN NULL ELSE S.authFile.userId

\* ---- git.js -------------------------------------------------------------
getRepoInfo(S) == S.repoInfo

\* ---- process memory -----------------------------------------------------
IdleDrain ==
    [pc |-> "idle", q |-> <<>>, i |-> 0, synced |-> 0, failed |-> 0,
     remaining |-> <<>>, stamp |-> NoNum, outcomes |-> <<>>, saw |-> FALSE,
     own |-> NoNum]

\* bin/migrate.js before it is run: sessions, the position of the loop, and
\* the counters success, failed and skipped; saw: the last duplicate check
\* was answered with a row
IdleMigration ==
    [pc |-> "idle", sessions |-> <<>>, i |-> 0, success |-> 0, failed |-> 0,
     skipped |-> 0, saw |-> FALSE]

\* the module-level state of a freshly loaded tracker.js, no run in flight
FreshMemory(S) ==
    [S EXCEPT !.startTime = NoNum, !.currentTaskName = JNull,
              !.sessionClientId = NoNum, !.isPaused = FALSE,
              !.pausedDuration = 0, !.pauseStartTime = NoNum,
              !.drains = [d \in D |-> IdleDrain], !.truePaused = 0]

\* process.exit(): the memory is gone, the files stay
processExit(S, h) ==
    [FreshMemory(S) EXCEPT
        !.phase = "exited",
        !.ends = [g \in H |-> IF g = h THEN S.ends[g]
                              ELSE IF S.ends[g] = "awaiting" THEN "killed"
                              ELSE S.ends[g]]]

\* ---- tracker.js ---------------------------------------------------------
startSession(S, taskName) ==
    [S EXCEPT !.startTime = S.now, !.currentTaskName = taskName,
              !.sessionClientId = S.nextUuid, !.nextUuid = S.nextUuid + 1,
              !.isPaused = FALSE, !.pausedDuration = 0,
              !.pauseStartTime = NoNum, !.truePaused = 0]

\* a string is the sequence of its UTF-16 code units
\* [\x00-\x1F\x7F]
ControlCharacters == (0..31) \cup {127}

\* [<>{}[\]\\|`$]
SpecialCharacters == {60, 62, 123, 125, 91, 93, 92, 124, 96, 36}

\* what String.prototype.trim removes: WhiteSpace and LineTerminator
WhiteSpace ==
    (9..13) \cup {32, 160, 5760} \cup (8192..8202)
        \cup {8232, 8233, 8239, 8287, 12288, 65279}

\* .slice(0, 100)
MaxTaskNameLength == 100

\* text.replace(/[chars]/g, "")
replace(text, chars) == SelectSeq(text, LAMBDA c : c \notin chars)

RECURSIVE trimStart(_)
trimStart(text) ==
    IF Len(text) > 0 /\ text[1] \in WhiteSpace THEN trimStart(Tail(text))
    ELSE text

RECURSIVE trimEnd(_)
trimEnd(text) ==
    IF Len(text) > 0 /\ text[Len(text)] \in WhiteSpace
    THEN trimEnd(SubSeq(text, 1, Len(text) - 1))
    ELSE text

\* text.trim()
trim(text) == trimEnd(trimStart(text))

\* text.slice(0, n)
slice(text, n) == SubSeq(text, 1, IF Len(text) < n THEN Len(text) ELSE n)

\* sanitizeTaskName without its trim
sanitizeTaskNameUntrimmed(name) ==
    IF ~Truthy(name) \/ name.t # "string" THEN JNull
    ELSE LET sanitized ==
                 slice(replace(replace(name.s, ControlCharacters),
                               SpecialCharacters),
                       MaxTaskNameLength)
         IN IF Len(sanitized) = 0 THEN JNull ELSE JStr(sanitized)

sanitizeTaskName(name) ==
    IF ~Truthy(name) \/ name.t # "string" THEN JNull
    ELSE LET sanitized ==
                 slice(trim(replace(replace(name.s, ControlCharacters),
                                    SpecialCharacters)),
                       MaxTaskNameLength)
         IN IF Len(sanitized) = 0 THEN JNull ELSE JStr(sanitized)

setTaskName(S, taskName) ==
    [S EXCEPT !.currentTaskName = sanitizeTaskName(taskName)]

\* a guard that lets a paused session be paused again
pauseGuardStarted(S) == ~Falsy(S.startTime)

pauseGuard(S) == ~(Falsy(S.startTime) \/ S.isPaused)

pauseSession(S) ==
    IF ~pauseGuard(S) THEN S
    ELSE [S EXCEPT !.isPaused = TRUE, !.pauseStartTime = S.now]

resumeGuard(S) == ~(Falsy(S.startTime) \/ ~S.isPaused)

resumeSession(S) ==
    IF ~resumeGuard(S) THEN S
    ELSE [S EXCEPT !.pausedDuration = S.pausedDuration + (S.now - Num(S.pauseStartTime)),
                   !.isPaused = FALSE, !.pauseStartTime = NoNum]

\* an endSession that leaves the pause fields as they are
endSessionResumeKeepsPause(S, h) ==
    LET S1 == [S EXCEPT !.startTime = NoNum, !.currentTaskName = JNull,
                        !.sessionClientId = NoNum,
                        !.ends = [S.ends EXCEPT ![h] = "done"],
                        !.drains = [S.drains EXCEPT ![h] = IdleDrain]]
    IN IF S.phase = "api" THEN S1 ELSE processExit(S1, h)

\* endSession, after the await: the fields go back to their defaults; in the
\* command line the .then of the handler exits the process at once
endSessionResume(S, h) ==
    LET S1 == [S EXCEPT !.startTime = NoNum, !.currentTaskName = JNull,
                        !.sessionClientId = NoNum, !.isPaused = FALSE,
                        !.pausedDuration = 0, !.pauseStartTime = NoNum,
                        !.ends = [S.ends EXCEPT ![h] = "done"],
                        !.drains = [S.drains EXCEPT ![h] = IdleDrain]]
    IN IF S.phase = "api" THEN S1 ELSE processExit(S1, h)

\* ---- queue.js -----------------------------------------------------------
readQueue(S) == S.queueFile

writeQueue(S, queue) == [S EXCEPT !.queueFile = queue]

\* queueSession that starts the journal over instead of pushing onto it
queueSessionRestart(S, session) ==
    LET queue == readQueue(S)
        queuedSession ==
            [start |-> session.start, end |-> session.end,
             duration |-> session.duration, taskName |-> session.taskName,
             clientId |-> session.clientId, repo |-> session.repo,
             queuedAt |-> S.now, syncAttempts |-> 0, lastError |-> NULL,
             eid |-> S.nextEid]
        S1 == writeQueue(S, [queue EXCEPT !.sessions = <<queuedSession>>])
    IN [S1 EXCEPT !.nextEid = @ + 1, !.tries = @ @@ (S.nextEid :> 0)]

queueSession(S, session) ==
    LET queue == readQueue(S)
        queuedSession ==
            [start |-> session.start, end |-> session.end,
             duration |-> session.duration, taskName |-> session.taskName,
             clientId |-> session.clientId, repo |-> session.repo,
             queuedAt |-> S.now, syncAttempts |-> 0, lastError |-> NULL,
             eid |-> S.nextEid]
        S1 == writeQueue(S, [queue EXCEPT !.sessions = Append(@, queuedSession)])
    IN [S1 EXCEPT !.nextEid = @ + 1, !.tries = @ @@ (S.nextEid :> 0)]

\* a retry cap that drops an entry at its first failure
keepInQueueBelowOne(session) == session.syncAttempts < 1

\* the entry stays in the journal while it is under the retry cap
keepInQueue(session) == session.syncAttempts < MaxSyncAttempts

\* the catch block of processQueue for the entry the run is at
fail(S, d, message) ==
    LET dr == S.drains[d]
        session == [dr.q[dr.i] EXCEPT !.syncAttempts = @ + 1,
                                      !.lastError = message]
    IN [S EXCEPT
          !.drains[d] =
              [dr EXCEPT !.remaining = IF keepInQueue(session)
                                       THEN Append(@, session) ELSE @,
                         !.failed = @ + 1, !.i = @ + 1, !.pc = "loop",
                         !.outcomes = Append(@, "failed"), !.saw = FALSE],
          !.deliveries = @ \cup {[eid |-> session.eid,
                                  clientId |-> session.clientId,
                                  saw |-> dr.saw, result |-> "failed"]}]

\* syncSession returned for the entry the run is at
succeed(S, d, how) ==
    LET dr == S.drains[d]
        session == dr.q[dr.i]
    IN [S EXCEPT
          !.drains[d] =
              [dr EXCEPT !.synced = @ + 1, !.i = @ + 1, !.pc = "loop",
                         !.outcomes = Append(@, how), !.saw = FALSE],
          !.deliveries = @ \cup {[eid |-> session.eid,
                                  clientId |-> session.clientId,
                                  saw |-> dr.saw, result |-> how]}]

\* ---- api.js -------------------------------------------------------------
\* syncSession up to its first network call: the error thrown, or "ok"
syncSessionChecks(S, session) ==
    IF ~isLoggedIn(S) THEN ErrNotLoggedIn
    ELSE IF getCurrentUserId(S) = NULL THEN ErrNoUser
    ELSE IF session.repo = NULL /\ getRepoInfo(S) = NULL THEN ErrNoRepo
    ELSE "ok"

HasRow(S, clientId) ==
    \E k \in 1..Len(S.remote) : S.remote[k].client_id = clientId

\* syncSession without its duplicate check
findExistingNever(S, session, reached) == FALSE

\* the select by client_id: a row, when the request reaches the remote
findExisting(S, session, reached) ==
    /\ session.clientId # NoNum
    /\ reached
    /\ HasRow(S, session.clientId)

\* a sessions table without the unique constraint on client_id
uniqueViolationNever(S, session) == FALSE

\* client_id TEXT UNIQUE: the insert is rejected when the value is taken
uniqueViolation(S, session) ==
    /\ session.clientId # NoNum
    /\ HasRow(S, session.clientId)

\* ---- store.js -----------------------------------------------------------
addSessionResult(cloudSynced) == [local |-> TRUE, cloud |-> cloudSynced]

\* addSession returns to endSession, which resumes in the same block
addSessionReturn(S, h, cloudSynced) ==
    LET dr == S.drains[h]
        queued == dr.own # NoNum
        res == addSessionResult(cloudSynced)
        S1 == [S EXCEPT !.returned = @ \cup
                 {[h |-> h, clientId |-> S.sessionClientId,
                   local |-> res.local, cloud |-> res.cloud, eid |-> dr.own,
                   outcome |-> IF queued /\ Len(dr.outcomes) = Len(dr.q)
                                  /\ Len(dr.q) > 0
                               THEN dr.outcomes[Len(dr.q)] ELSE "none",
                   inQueue |-> \E k \in 1..Len(S.queueFile.sessions) :
                                  S.queueFile.sessions[k].eid = dr.own]}]
    IN endSessionResume(S1, h)

\* { synced, failed, remaining: remaining.length }
processQueueResult(dr) ==
    [synced |-> dr.synced, failed |-> dr.failed,
     remaining |-> Len(dr.remaining)]

\* processQueue returns: to addSession, or to the .then of the startup drain;
\* the history keeps the summary next to the number of entries the run read
\* and the number it dropped
processQueueReturn(S, d) ==
    LET dr == S.drains[d]
        res == processQueueResult(dr)
        S1 == [S EXCEPT !.summaries = @ \cup
                  {[synced |-> res.synced, failed |-> res.failed,
                    remaining |-> res.remaining, total |-> Len(dr.q),
                    dropped |-> Len(dr.q) - dr.synced - Len(dr.remaining)]}]
    IN IF d \in H THEN addSessionReturn(S1, d, res.synced > 0)
       ELSE [S1 EXCEPT !.drains[d] = IdleDrain]

\* the for loop of processQueue from its current entry, up to the next
\* network call or the final writeQueue
RECURSIVE processQueueLoop(_, _)
processQueueLoop(S, d) ==
    LET dr == S.drains[d] IN
    IF dr.i > Len(dr.q)
    THEN processQueueReturn(
             writeQueue(S, [sessions |-> dr.remaining,
                            lastSyncAttempt |-> dr.stamp]), d)
    ELSE LET session == dr.q[dr.i]
             S1 == [S EXCEPT !.tries[session.eid] = @ + 1]
             err == syncSessionChecks(S1, session)
         IN IF err = "ok"
            THEN [S1 EXCEPT !.drains[d].pc = "repo", !.drains[d].saw = FALSE]
            ELSE processQueueLoop(fail(S1, d, err), d)

processQueue(S, d, own) ==
    LET queue == readQueue(S) IN
    IF Len(queue.sessions) = 0
    THEN processQueueReturn([S EXCEPT !.drains[d] = [IdleDrain EXCEPT !.own = own]], d)
    ELSE processQueueLoop(
             [S EXCEPT !.drains[d] =
                 [pc |-> "loop", q |-> queue.sessions, i |-> 1, synced |-> 0,
                  failed |-> 0, remaining |-> <<>>, stamp |-> S.now,
                  outcomes |-> <<>>, saw |-> FALSE, own |-> own]], d)

\* getOrCreateRepo and getOrCreateTask answered; reached: the requests got
\* to the remote and back
getOrCreate(S, d, reached) ==
    IF reached THEN [S EXCEPT !.drains[d].pc = "check"]
    ELSE processQueueLoop(fail(S, d, ErrFetch), d)

\* the duplicate check of syncSession answered
checkDuplicate(S, d, reached) ==
    LET session == S.drains[d].q[S.drains[d].i]
        S1 == [S EXCEPT !.drains[d].saw = reached /\ HasRow(S, session.clientId)]
    IN IF findExisting(S, session, reached)
       THEN processQueueLoop(succeed(S1, d, "deduped"), d)
       ELSE [S1 EXCEPT !.drains[d].pc = "insert"]

\* the insert of syncSession answered; net: "down" the request did not get to
\* the remote, "lost" it did and the response did not get back, "ok" both did
insertSession(S, d, net) ==
    LET session == S.drains[d].q[S.drains[d].i] IN
    IF net = "down" THEN processQueueLoop(fail(S, d, ErrFetch), d)
    ELSE IF uniqueViolation(S, session)
    THEN processQueueLoop(fail(S, d, ErrDuplicate), d)
    ELSE LET S1 == [S EXCEPT !.remote = Append(@,
                        [client_id |-> session.clientId,
                         start_time |-> session.start,
                         end_time |-> session.end])]
         IN IF net = "ok" THEN processQueueLoop(succeed(S1, d, "inserted"), d)
            ELSE processQueueLoop(fail(S1, d, ErrFetch), d)

\* addSession queues the session when logged in and inside a repository
shouldQueue(S) == isLoggedIn(S) /\ getRepoInfo(S) # NULL

\* addSession that keeps the ledger only for a logged-in user
addSessionStoreWhenLoggedIn(S, session) ==
    IF isLoggedIn(S)
    THEN [S EXCEPT !.ledger = Append(@, [start |-> session.start,
                                         end |-> session.end,
                                         taskName |-> session.taskName,
                                         clientId |-> session.clientId])]
    ELSE S

addSessionStore(S, session) ==
    [S EXCEPT !.ledger = Append(@, [start |-> session.start,
                                    end |-> session.end,
                                    taskName |-> session.taskName,
                                    clientId |-> session.clientId])]

\* the loop of getLocalStats over the first n sessions: totalMs
RECURSIVE totalMs(_, _)
totalMs(sessions, n) ==
    IF n = 0 THEN 0
    ELSE LET duration == sessions[n].end - sessions[n].start IN
         totalMs(sessions, n - 1) + (IF duration > 0 THEN duration ELSE 0)

\* getLocalStats(): the all-time total; the totals of today, of the week and
\* of the month add the same durations for the sessions that fall into them
getLocalStats(S) == [totalMs |-> totalMs(S.ledger, Len(S.ledger))]

addSessionQueue(S, session) ==
    IF shouldQueue(S)
    THEN queueSession(S, [start |-> session.start, end |-> session.end,
                          duration |-> session.duration,
                          taskName |-> session.taskName,
                          clientId |-> session.clientId,
                          repo |-> getRepoInfo(S)])
    ELSE S

\* addSession that enqueues before it writes the ledger
addSessionWritesQueueFirst(S, session, k) ==
    IF k = 0 THEN S
    ELSE IF k = 1 THEN addSessionQueue(S, session)
    ELSE addSessionStore(addSessionQueue(S, session), session)

\* the state after the first k disk writes of addSession
addSessionWrites(S, session, k) ==
    IF k = 0 THEN S
    ELSE IF k = 1 THEN addSessionStore(S, session)
    ELSE addSessionQueue(addSessionStore(S, session), session)

addSession(S, h, session) ==
    LET S2 == addSessionWrites(S, session, 2) IN
    IF shouldQueue(S) THEN processQueue(S2, h, S.nextEid)
    ELSE addSessionReturn([S2 EXCEPT !.drains[h] = IdleDrain], h, FALSE)

\* ---- tracker.js: endSession ----------------------------------------------
\* endSession without its guard
endGuardNever(S) == FALSE

\* if (!startTime) return;
endGuard(S) == Falsy(S.startTime)

\* pausedDuration after the open pause, if any, is folded in
foldPause(S) ==
    IF S.isPaused /\ ~Falsy(S.pauseStartTime)
    THEN S.pausedDuration + (S.now - S.pauseStartTime)
    ELSE S.pausedDuration

\* the session record endSession hands to addSession
endSessionRecord(S) ==
    [start |-> S.startTime, end |-> S.now,
     duration |-> S.now - Num(S.startTime) - foldPause(S),
     taskName |-> S.currentTaskName, clientId |-> S.sessionClientId]

\* endSession up to the call of addSession
endSessionBegin(S, h) ==
    LET session == endSessionRecord(S) IN
    [S EXCEPT !.pausedDuration = foldPause(S),
              !.ends[h] = "awaiting",
              !.finalized = @ \cup
                  {[h |-> h, clientId |-> session.clientId,
                    start |-> session.start, end |-> session.end,
                    duration |-> session.duration, paused |-> S.truePaused,
                    wasPaused |-> S.isPaused,
                    loggedIn |-> isLoggedIn(S), repo |-> S.repoInfo # NULL,
                    queued |-> Len(addSessionWrites(S, session, 2).queueFile.sessions)
                                   > Len(S.queueFile.sessions)]}]

endSession(S, h) ==
    IF endGuard(S)
    THEN LET S1 == [S EXCEPT !.ends[h] = "noop"] IN
         IF S.phase = "api" THEN S1 ELSE processExit(S1, h)
    ELSE addSession(endSessionBegin(S, h), h, endSessionRecord(S))

\* ---- kills ---------------------------------------------------------------
crash(S, point) ==
    [FreshMemory(S) EXCEPT
        !.phase = "crashed", !.crashPoint = point,
        !.ends = [g \in H |-> IF S.ends[g] = "awaiting" THEN "killed"
                              ELSE S.ends[g]]]

\* ---- auth.js: refresh and logout -----------------------------------------
readAuthData(S) == S.authFile

writeAuthData(S, data) == [S EXCEPT !.authFile = data]

clearAuthData(S) == [S EXCEPT !.authFile = NoAuth]

IdleLogout ==
    [pc |-> "idle", n |-> 0, success |-> FALSE, serverRevoked |-> FALSE,
     outcome |-> "none"]

\* 1000 * 60 * 60 in shouldRefreshToken
MsPerHour == MsPerSec * 60 * 60

\* 60 * 60 * 24 * 7 in the token-refresh function: a new token lasts 7 days
SessionLifetimeSec == 60 * 60 * 24 * 7

\* getSessionWithRefresh that refreshes in the background whenever the token
\* has not expired
shouldRefreshTokenAlways(S, expiresAt) == ~Falsy(expiresAt)

\* hoursRemaining > 0 && hoursRemaining < 24, with hoursRemaining the
\* remaining milliseconds divided by MsPerHour
shouldRefreshToken(S, expiresAt) ==
    IF Falsy(expiresAt) THEN FALSE
    ELSE LET msRemaining == expiresAt * MsPerSec - S.now IN
         msRemaining > 0 /\ msRemaining < RefreshWindowHours * MsPerHour

\* expiresAt && Date.now() > expiresAt * 1000 in getSessionWithRefresh
tokenExpired(S, expiresAt) ==
    ~Falsy(expiresAt) /\ S.now > expiresAt * MsPerSec

\* what the caller of getSessionWithRefresh gets when the refresh failed
expiredSession(authData, requiresReauth) ==
    [auth |-> authData, expired |-> TRUE, requiresReauth |-> requiresReauth]

\* the promise of refreshToken call r settles with result; sent: whether a
\* request went out.  A background call has its result dropped, a direct call
\* returns it, and getSessionWithRefresh resumes after its await.
refreshSettle(S, r, result, outcome, sent) ==
    [S EXCEPT
        !.refreshes = @ \ {r},
        !.authLog = @ \cup
            {[op |-> "refreshToken", id |-> r.id, mode |-> r.mode,
              at |-> S.now, calledAt |-> r.calledAt, snapshot |-> r.authData,
              stored |-> S.authFile, result |-> result, outcome |-> outcome,
              requests |-> IF sent THEN 1 ELSE 0,
              returned |-> IF r.mode # "sync" THEN NoAuth
                           ELSE IF result.success THEN readAuthData(S)
                           ELSE expiredSession(r.authData,
                                               result.requiresReauth)]}]

\* refreshToken that takes a transport failure for an invalid identity token
refreshFailureReauthAlways(outcome) ==
    [success |-> FALSE, requiresReauth |-> TRUE]

\* the result of refreshToken for a response other than 200, or none
refreshFailure(outcome) ==
    [success |-> FALSE, requiresReauth |-> outcome = "invalid"]

\* refreshToken that drops the stored record when the refresh failed
refreshReplyFailedClears(S, r, outcome) ==
    refreshSettle(clearAuthData(S), r, refreshFailure(outcome), outcome, TRUE)

\* the Identity Service answered with a status other than 200 ("invalid":
\* 401 GITHUB_TOKEN_INVALID, "refused": any other), or the request failed
\* ("neterr")
refreshReplyFailed(S, r, outcome) ==
    refreshSettle(S, r, refreshFailure(outcome), outcome, TRUE)

\* the Identity Service answered 200: the record read when the call began is
\* written back with the new token, expiry and user
refreshReplyOk(S, r) ==
    LET expires_at == (S.now \div MsPerSec) + SessionLifetimeSec
        authData == [r.authData EXCEPT !.accessToken = "jwt2",
                                       !.expiresAt = expires_at,
                                       !.userId = "u1",
                                       !.lastRefresh = S.now]
    IN refreshSettle(writeAuthData(S, authData), r,
                     [success |-> TRUE, expiresAt |-> expires_at], "ok", TRUE)

\* refreshToken that deletes a record it cannot refresh
refreshTokenClears(S, mode) ==
    LET authData == readAuthData(S)
        r == [id |-> S.nextCall, mode |-> mode, authData |-> authData,
              calledAt |-> S.now]
        S1 == [S EXCEPT !.nextCall = @ + 1]
    IN IF authData = NoAuth \/ authData.githubToken = NULL
       THEN refreshSettle(clearAuthData(S1), r,
                          [success |-> FALSE, requiresReauth |-> TRUE],
                          "noIdentityToken", FALSE)
       ELSE [S1 EXCEPT !.refreshes = @ \cup {r}]

\* refreshToken up to its await; mode says who called it
refreshToken(S, mode) ==
    LET authData == readAuthData(S)
        r == [id |-> S.nextCall, mode |-> mode, authData |-> authData,
              calledAt |-> S.now]
        S1 == [S EXCEPT !.nextCall = @ + 1]
    IN IF authData = NoAuth \/ authData.githubToken = NULL
       THEN refreshSettle(S1, r, [success |-> FALSE, requiresReauth |-> TRUE],
                          "noIdentityToken", FALSE)
       ELSE [S1 EXCEPT !.refreshes = @ \cup {r}]

\* getSessionWithRefresh up to its return or its await
getSessionWithRefresh(S) ==
    LET authData == readAuthData(S)
        entry == [op |-> "getSessionWithRefresh", id |-> S.nextCall,
                  at |-> S.now, stored |-> authData]
    IN IF authData = NoAuth
       THEN [S EXCEPT !.nextCall = @ + 1,
                      !.authLog = @ \cup {entry @@ [branch |-> "none",
                                                    returned |-> NoAuth,
                                                    inFlight |-> FALSE]}]
       ELSE IF tokenExpired(S, authData.expiresAt)
       THEN refreshToken(S, "sync")
       ELSE IF shouldRefreshToken(S, authData.expiresAt)
       THEN LET S1 == refreshToken(S, "background") IN
            [S1 EXCEPT !.authLog = @ \cup
                {entry @@ [branch |-> "background", returned |-> authData,
                           inFlight |-> \E r \in S1.refreshes :
                                           r.id = S.nextCall]}]
       ELSE [S EXCEPT !.nextCall = @ + 1,
                      !.authLog = @ \cup {entry @@ [branch |-> "valid",
                                                    returned |-> authData,
                                                    inFlight |-> FALSE]}]

\* logout that keeps the local record when the revocation did not succeed
logoutFinishWhenRevoked(S, outcome) ==
    LET S1 == IF outcome = "200" THEN clearAuthData(S) ELSE S IN
    [S1 EXCEPT !.logoutCall = [pc |-> "done", n |-> S.logoutCall.n + 1,
                               success |-> TRUE,
                               serverRevoked |-> outcome = "200",
                               outcome |-> outcome]]

\* logout after its try block: clearAuthData, then the return value
logoutFinish(S, outcome) ==
    [clearAuthData(S) EXCEPT
        !.logoutCall = [pc |-> "done", n |-> S.logoutCall.n + 1,
                        success |-> TRUE, serverRevoked |-> outcome = "200",
                        outcome |-> outcome]]

\* logout up to its await, or to its return when no session token is stored
logout(S) ==
    LET authData == readAuthData(S)
        S1 == [S EXCEPT !.nextCall = @ + 1]
    IN IF authData # NoAuth /\ authData.accessToken # NULL
       THEN [S1 EXCEPT !.logoutCall.pc = "await"]
       ELSE logoutFinish(S1, "noToken")

\* ---- files ----------------------------------------------------------------
\* fs.existsSync is false
NoFile == [t |-> "nofile"]
\* text that JSON.parse rejects
Garbage == [t |-> "text", json |-> FALSE]
\* text that JSON.parse turns into value
JsonFile(value) == [t |-> "text", json |-> TRUE, value |-> value]

\* ---- documents and their JSON text, as UTF-8 bytes -----------------------
CredentialDoc == JObj([supabase |-> JObj([expiresAt |-> JNum(7200)])])

\* {"supabase":{"expiresAt":7200}}
CredentialText ==
    <<123, 34, 115, 117, 112, 97, 98, 97, 115, 101, 34, 58, 123, 34, 101,
      120, 112, 105, 114, 101, 115, 65, 116, 34, 58, 55, 50, 48, 48, 125,
      125>>

QueueDoc ==
    JObj([sessions |-> JArr(<<JObj([start |-> JNum(1), end |-> JNum(2)])>>)])

\* {"sessions":[{"start":1,"end":2}]}
QueueText ==
    <<123, 34, 115, 101, 115, 115, 105, 111, 110, 115, 34, 58, 91, 123, 34,
      115, 116, 97, 114, 116, 34, 58, 49, 44, 34, 101, 110, 100, 34, 58,
      50, 125, 93, 125>>

BadQueueDoc ==
    JObj([sessions |-> JArr(<<JObj([start |-> JStr(<<"1">>)])>>)])

\* {"sessions":[{"start":"1"}]}
BadQueueText ==
    <<123, 34, 115, 101, 115, 115, 105, 111, 110, 115, 34, 58, 91, 123, 34,
      115, 116, 97, 114, 116, 34, 58, 34, 49, 34, 125, 93, 125>>

\* an envelope whose data field is empty
BadEnvelopeDoc ==
    JObj([v |-> JNum(1), iv |-> JStr(<<"0", "0">>),
          tag |-> JStr(<<"0", "0">>), data |-> JStr(<<>>)])

\* {"v":1,"iv":"00","tag":"00","data":""}
BadEnvelopeText ==
    <<123, 34, 118, 34, 58, 49, 44, 34, 105, 118, 34, 58, 34, 48, 48, 34,
      44, 34, 116, 97, 103, 34, 58, 34, 48, 48, 34, 44, 34, 100, 97, 116,
      97, 34, 58, 34, 34, 125>>

Docs ==
    {[value |-> CredentialDoc, text |-> CredentialText],
     [value |-> QueueDoc, text |-> QueueText],
     [value |-> BadQueueDoc, text |-> BadQueueText],
     [value |-> BadEnvelopeDoc, text |-> BadEnvelopeText]}

\* JSON.stringify(value), as bytes
Stringify(value) == (CHOOSE d \in Docs : d.value = value).text

\* JSON.parse of bytes: the value, or a SyntaxError
ParseBytes(bytes) ==
    IF \E d \in Docs : d.text = bytes
    THEN [ok |-> TRUE, value |-> (CHOOSE d \in Docs : d.text = bytes).value]
    ELSE [ok |-> FALSE]

\* ---- hex ------------------------------------------------------------------
LowerHex ==
    <<"0", "1", "2", "3", "4", "5", "6", "7", "8", "9",
      "a", "b", "c", "d", "e", "f">>

UpperHex ==
    <<"0", "1", "2", "3", "4", "5", "6", "7", "8", "9",
      "A", "B", "C", "D", "E", "F">>

\* the value of a hex digit of either case, or NoNum
HexVal(c) ==
    IF \E i \in 1..16 : LowerHex[i] = c
    THEN (CHOOSE i \in 1..16 : LowerHex[i] = c) - 1
    ELSE IF \E i \in 1..16 : UpperHex[i] = c
    THEN (CHOOSE i \in 1..16 : UpperHex[i] = c) - 1
    ELSE NoNum

\* buffer.toString('hex')
RECURSIVE ToHex(_)
ToHex(bytes) ==
    IF Len(bytes) = 0 THEN <<>>
    ELSE <<LowerHex[(bytes[1] \div 16) + 1], LowerHex[(bytes[1] % 16) + 1]>>
             \o ToHex(Tail(bytes))

\* Buffer.from(s, 'hex'): decoding stops at the first pair that is not two
\* hex digits, and a last single digit is dropped
RECURSIVE FromHex(_)
FromHex(s) ==
    IF Len(s) < 2 THEN <<>>
    ELSE IF HexVal(s[1]) = NoNum \/ HexVal(s[2]) = NoNum THEN <<>>
    ELSE <<16 * HexVal(s[1]) + HexVal(s[2])>> \o FromHex(SubSeq(s, 3, Len(s)))

\* ---- secure-storage.js: the cipher ---------------------------------------
\* getEncryptionKey(): the key of this machine, one byte of it
Key == 90
\* crypto.randomBytes(16): the nonces the model draws
IvChoices ==
    {<<17, 34, 51, 68, 85, 102, 119, 136, 153, 170, 187, 204, 221, 238, 250, 1>>,
     <<171, 205, 239, 1, 35, 69, 103, 137, 16, 50, 84, 118, 152, 186, 220, 254>>}
\* tag lengths in bytes that aes-256-gcm accepts when createDecipheriv is
\* given no authTagLength
GcmTagLengths == {4, 8, 12, 13, 14, 15, 16}
\* cipher.getAuthTag() has 16 bytes
GcmTagBytes == 16

RECURSIVE Xor(_, _, _)
\* a XOR b on the low n bits
Xor(a, b, n) ==
    IF n = 0 THEN 0
    ELSE (((a % 2) + (b % 2)) % 2) + 2 * Xor(a \div 2, b \div 2, n - 1)

\* byte i of the counter-mode key stream (stands for AES under Key)
KeyStream(iv, i) == (Key + 3 * iv[((i - 1) % Len(iv)) + 1] + 7 * i) % 256

\* cipher.update / decipher.update: XOR with the key stream
Ctr(iv, bytes) ==
    [i \in 1..Len(bytes) |-> Xor(bytes[i], KeyStream(iv, i), 8)]

RECURSIVE WeightedSum(_, _)
WeightedSum(bytes, w) ==
    IF Len(bytes) = 0 THEN 0
    ELSE bytes[1] * w + WeightedSum(Tail(bytes), w + 1)

\* the authentication tag (stands for GHASH): it depends on every byte of the
\* nonce and of the ciphertext and on their lengths
GcmTag(iv, ct) ==
    LET h == Key + WeightedSum(ct, 7) + 31 * Len(ct)
                 + WeightedSum(iv, 3) + 17 * Len(iv)
    IN [k \in 1..GcmTagBytes |->
           (IF k = 1 THEN h % 256
            ELSE IF k = 2 THEN (h \div 256) % 256
            ELSE IF k = 3 THEN (h \div 65536) % 256
            ELSE h + 13 * k) % 256]

\* encrypt(data), iv the 16 random bytes: the JSON text of the envelope
encrypt(data, iv) ==
    LET encrypted == Ctr(iv, Stringify(data)) IN
    JsonFile(JObj([v |-> JNum(1), iv |-> JStr(ToHex(iv)),
                   tag |-> JStr(ToHex(GcmTag(iv, encrypted))),
                   data |-> JStr(ToHex(encrypted))]))

\* decrypt(encryptedStr): the value, or null when anything throws
decrypt(encryptedStr) ==
    IF ~encryptedStr.json THEN JNull
    ELSE LET parsed == encryptedStr.value
             iv == Get(parsed, "iv")
             tag == Get(parsed, "tag")
             data == Get(parsed, "data")
         IN IF parsed.t \in {"null", "undefined"} THEN JNull
            ELSE IF iv.t # "string" \/ tag.t # "string" \/ data.t # "string"
            THEN JNull
            ELSE LET ivBytes == FromHex(iv.s)
                     tagBytes == FromHex(tag.s)
                     ct == FromHex(data.s)
                 IN IF Len(ivBytes) = 0 THEN JNull
                    ELSE IF Len(tagBytes) \notin GcmTagLengths THEN JNull
                    ELSE IF tagBytes # SubSeq(GcmTag(ivBytes, ct), 1,
                                              Len(tagBytes))
                    THEN JNull
                    ELSE LET plain == ParseBytes(Ctr(ivBytes, ct)) IN
                         IF plain.ok THEN plain.value ELSE JNull

\* isEncrypted(content)
isEncrypted(content) ==
    IF ~content.json THEN FALSE
    ELSE LET parsed == content.value IN
         IF parsed.t \in {"null", "undefined"} THEN FALSE
         ELSE /\ Get(parsed, "v") = JNum(1)
              /\ Truthy(Get(parsed, "iv"))
              /\ Truthy(Get(parsed, "tag"))
              /\ Truthy(Get(parsed, "data"))

\* ---- secure-storage.js: the credential file ------------------------------
\* writeSecureAuthData(data): the content it leaves on disk
writeSecureAuthData(data, iv) == encrypt(data, iv)

\* readSecureAuthData that does not re-save a legacy file
readSecureAuthDataNoMigration(content, iv) ==
    IF content = NoFile THEN [result |-> JNull, disk |-> content]
    ELSE IF isEncrypted(content)
    THEN [result |-> decrypt(content), disk |-> content]
    ELSE IF ~content.json THEN [result |-> JNull, disk |-> content]
    ELSE [result |-> content.value, disk |-> content]

\* readSecureAuthData(): what it returns and the content it leaves on disk;
\* iv is drawn when a legacy file is re-saved
readSecureAuthData(content, iv) ==
    IF content = NoFile THEN [result |-> JNull, disk |-> content]
    ELSE IF isEncrypted(content)
    THEN [result |-> decrypt(content), disk |-> content]
    ELSE IF ~content.json THEN [result |-> JNull, disk |-> content]
    ELSE LET data == content.value IN
         [result |-> data, disk |-> writeSecureAuthData(data, iv)]

\* what getSession sees of the value readAuthData returned
AsAuthFile(data) ==
    IF ~Truthy(data) THEN NoAuth
    ELSE LET expiresAt == Get(Get(data, "supabase"), "expiresAt") IN
         [expiresAt |-> IF expiresAt.t = "number" THEN expiresAt.n ELSE NoNum,
          userId |-> NULL]

\* ---- queue.js: the journal file ------------------------------------------
\* { sessions: [], lastSyncAttempt: null }
EmptyQueueDoc == JObj([sessions |-> JArr(<<>>), lastSyncAttempt |-> JNull])

validateQueueData(data) ==
    /\ Truthy(data)
    /\ data.t \in {"object", "array"}
    /\ Get(data, "sessions").t = "array"
    /\ \A k \in 1..Len(Get(data, "sessions").items) :
          LET session == Get(data, "sessions").items[k] IN
          /\ Get(session, "start").t = "number"
          /\ Get(session, "end").t = "number"

\* writeQueue(queue): the content it leaves on disk
writeQueueFile(queue, iv) == encrypt(queue, iv)

\* readQueue(), on the bytes of the journal: what it returns and the content
\* it leaves on disk
readQueueFile(content, iv) ==
    IF content = NoFile THEN [result |-> EmptyQueueDoc, disk |-> content]
    ELSE IF isEncrypted(content)
    THEN LET data == decrypt(content) IN
         IF ~Truthy(data) THEN [result |-> EmptyQueueDoc, disk |-> content]
         ELSE IF ~validateQueueData(data)
         THEN [result |-> EmptyQueueDoc, disk |-> content]
         ELSE [result |-> data, disk |-> content]
    ELSE IF ~content.json THEN [result |-> EmptyQueueDoc, disk |-> content]
    ELSE LET data == content.value
             disk == writeQueueFile(data, iv)
         IN IF ~validateQueueData(data)
            THEN [result |-> EmptyQueueDoc, disk |-> disk]
            ELSE [result |-> data, disk |-> disk]

\* nothing has been encrypted yet; file: the file the run works on
Unsealed(file) ==
    [file |-> file, x |-> Undefined, blob |-> NoFile, by |-> "none",
     tampered |-> FALSE, field |-> "none", pos |-> 0, char |-> "none"]

\* ---- idle values of the calls modelled further down ---------------------
\* no fs.writeFileSync call is in progress
IdleWriter ==
    [pc |-> "idle", file |-> "none", old |-> NoFile, new |-> NoFile,
     written |-> 0, n |-> 0, legacy |-> FALSE]

\* pollForToken has not been called
IdlePoll ==
    [pc |-> "idle", attempt |-> 0, requests |-> 0, initial |-> 0,
     interval |-> 0, slowDowns |-> 0, last |-> "none", waited |-> 0,
     result |-> "none"]

\* no reading of getDuration has been taken
NoReading ==
    [taken |-> FALSE, value |-> 0, at |-> 0, clientId |-> NoNum,
     isPaused |-> FALSE, pauseStartTime |-> NoNum, ending |-> FALSE,
     worked |-> 0]

\* no function of tracker.js has been called
NoCalls ==
    [op |-> "none", result |-> FALSE, reading |-> NoReading, started |-> {}]

\* ---- initial states ------------------------------------------------------
\* a session of an earlier run, still waiting in the journal
OldSession ==
    [start |-> TickMs, end |-> TickMs, taskName |-> JNull, clientId |-> 0]

OldEntry(attempts) ==
    [start |-> TickMs, end |-> TickMs, duration |-> 0, taskName |-> JNull,
     clientId |-> 0, repo |-> "owner/repo", queuedAt |-> TickMs,
     syncAttempts |-> attempts,
     lastError |-> IF attempts = 0 THEN NULL ELSE ErrFetch, eid |-> 0]

EmptyQueue == [sessions |-> <<>>, lastSyncAttempt |-> NoNum]

\* attempts an entry of an earlier run may have behind it
OldAttempts == {0, MaxSyncAttempts - 1}

AuthChoices ==
    {NoAuth,
     [expiresAt |-> TickSec, userId |-> "u1"],
     [expiresAt |-> (MaxTicks + 1) * TickSec, userId |-> "u1"],
     [expiresAt |-> (MaxTicks + 1) * TickSec, userId |-> NULL]}

InitCommon ==
    /\ now = TickMs
    /\ startTime = NoNum
    /\ currentTaskName = JNull
    /\ sessionClientId = NoNum
    /\ isPaused = FALSE
    /\ pausedDuration = 0
    /\ pauseStartTime = NoNum
    /\ authFile \in AuthChoices
    /\ repoInfo \in {NULL, "owner/repo"}
    /\ remote = <<>>
    /\ nextUuid = 1
    /\ ends = [h \in H |-> "idle"]
    /\ drains = [d \in D |-> IdleDrain]
    /\ nextEid = 1
    /\ truePaused = 0
    /\ finalized = {}
    /\ returned = {}
    /\ deliveries = {}
    /\ crashPoint = "none"
    /\ refreshes = {}
    /\ logoutCall = IdleLogout
    /\ nextCall = 1
    /\ authLog = {}
    /\ authDisk = NoFile
    /\ queueDisk = NoFile
    /\ sealed = Unsealed("none")
    /\ storeLog = {}
    /\ ledgerDisk = NoFile
    /\ writer = IdleWriter
    /\ poll = IdlePoll
    /\ calls = NoCalls
    /\ summaries = {}
    /\ network = "up"
    /\ argv = <<>>
    /\ taskInput = Undefined
    /\ loginPc = "idle"
    /\ migration = IdleMigration

FreshDisk ==
    /\ ledger = <<>>
    /\ queueFile = EmptyQueue
    /\ tries = (0 :> 0)

UsedDisk ==
    \E a \in OldAttempts :
        /\ ledger = <<OldSession>>
        /\ queueFile = [sessions |-> <<OldEntry(a)>>, lastSyncAttempt |-> TickMs]
        /\ tries = (0 :> a)

\* the command line has not been run yet
Init == InitCommon /\ FreshDisk /\ phase = "none"

InitDrain == InitCommon /\ (FreshDisk \/ UsedDisk) /\ phase = "none"

InitApi == InitCommon /\ FreshDisk /\ phase = "api"

\* ---- the clock ----------------------------------------------------------
Tick ==
    /\ now < MaxTicks * TickMs
    /\ Commit([Cur EXCEPT !.now = @ + TickMs,
                          !.truePaused = IF isPaused THEN @ + TickMs ELSE @])

\* ---- bin/index.js: runTracker -------------------------------------------
\* the answer to the prompt: nothing, or "task"
TaskName == JStr(<<116, 97, 115, 107>>)

TaskChoices == {JNull, TaskName}

\* runTracker up to its first await: startSession, then the startup drain
runTrackerBegin(S) ==
    LET S0 == [FreshMemory(S) EXCEPT !.ends = [h \in H |-> "idle"],
                                     !.crashPoint = "none",
                                     !.phase = "booting"]
        S1 == startSession(S0, JNull)
    IN IF Len(readQueue(S1).sessions) > 0
       THEN processQueue(S1, "startup", NoNum)
       ELSE S1

RunStart ==
    /\ phase = "none"
    /\ Commit(runTrackerBegin(Cur))

\* the task prompt answered, the server started, the child spawned and the
\* signal and exit handlers registered
runTrackerReady(S, taskName) ==
    LET S1 == IF Truthy(taskName) THEN setTaskName(S, taskName) ELSE S IN
    [S1 EXCEPT !.phase = "tracking"]

Boot ==
    /\ phase = "booting"
    /\ \E taskName \in TaskChoices : Commit(runTrackerReady(Cur, taskName))

\* POST /api/pause and /api/resume of the dashboard server
Pause ==
    /\ phase \in {"tracking", "api"}
    /\ Commit(pauseSession(Cur))

Resume ==
    /\ phase \in {"tracking", "api"}
    /\ Commit(resumeSession(Cur))

\* SIGINT / SIGTERM: cleanup()
Signal ==
    /\ phase = "tracking"
    /\ ends["signal"] = "idle"
    /\ Commit(endSession(Cur, "signal"))

\* child.on('exit')
ChildExit ==
    /\ phase = "tracking"
    /\ ends["childExit"] = "idle"
    /\ Commit(endSession(Cur, "childExit"))

\* network responses (or failures) reach a suspended syncSession
RepoReply ==
    \E d \in D, reached \in BOOLEAN :
        /\ drains[d].pc = "repo"
        /\ Commit(getOrCreate(Cur, d, reached))

CheckReply ==
    \E d \in D, reached \in BOOLEAN :
        /\ drains[d].pc = "check"
        /\ Commit(checkDuplicate(Cur, d, reached))

InsertReply ==
    \E d \in D, net \in {"ok", "lost", "down"} :
        /\ drains[d].pc = "insert"
        /\ Commit(insertSession(Cur, d, net))

\* the process is killed between two blocks
Crash ==
    /\ phase \in {"booting", "tracking"}
    /\ Commit(crash(Cur, "idle"))

\* the process is killed inside endSession, after the first k disk writes of
\* addSession
EndSessionCrash ==
    \E h \in H, k \in {1, 2} :
        /\ phase = "tracking"
        /\ ends[h] = "idle"
        /\ ~endGuard(Cur)
        /\ k = 2 => shouldQueue(Cur)
        /\ Commit(crash(addSessionWrites(
                            [Cur EXCEPT !.pausedDuration = foldPause(Cur)],
                            endSessionRecord(Cur), k),
                        IF k = 1 THEN "afterStore" ELSE "afterQueue"))

\* ---- auth.js called directly ----------------------------------------------
\* credential records: the supabase part (expiresAt in epoch seconds, the
\* session token, the user id), the identity token and lastRefresh
ExpiryChoices ==
    {NoNum, TickSec, TickSec + 10 * 60 * 60,
     TickSec + RefreshWindowHours * 60 * 60,
     TickSec + 2 * RefreshWindowHours * 60 * 60}

AuthRecords ==
    [expiresAt : ExpiryChoices, userId : {"u1"}, githubToken : {NULL, "gh"},
     accessToken : {NULL, "jwt1"}, lastRefresh : {NoNum}]

InitAuth ==
    /\ now = TickMs
    /\ startTime = NoNum
    /\ currentTaskName = JNull
    /\ sessionClientId = NoNum
    /\ isPaused = FALSE
    /\ pausedDuration = 0
    /\ pauseStartTime = NoNum
    /\ authFile \in {NoAuth} \cup AuthRecords
    /\ repoInfo = "owner/repo"
    /\ remote = <<>>
    /\ nextUuid = 1
    /\ ends = [h \in H |-> "idle"]
    /\ drains = [d \in D |-> IdleDrain]
    /\ nextEid = 1
    /\ truePaused = 0
    /\ finalized = {}
    /\ returned = {}
    /\ deliveries = {}
    /\ crashPoint = "none"
    /\ refreshes = {}
    /\ logoutCall = IdleLogout
    /\ nextCall = 1
    /\ authLog = {}
    /\ authDisk = NoFile
    /\ queueDisk = NoFile
    /\ sealed = Unsealed("none")
    /\ storeLog = {}
    /\ ledgerDisk = NoFile
    /\ writer = IdleWriter
    /\ poll = IdlePoll
    /\ calls = NoCalls
    /\ summaries = {}
    /\ network = "up"
    /\ argv = <<>>
    /\ taskInput = Undefined
    /\ loginPc = "idle"
    /\ migration = IdleMigration
    /\ ledger = <<OldSession>>
    /\ queueFile = [sessions |-> <<OldEntry(0)>>, lastSyncAttempt |-> TickMs]
    /\ tries = (0 :> 0)
    /\ phase = "auth"

AuthIsLoggedIn ==
    /\ phase = "auth"
    /\ nextCall <= MaxCalls
    /\ Commit([Cur EXCEPT
                  !.nextCall = @ + 1,
                  !.authLog = @ \cup
                      {[op |-> "isLoggedIn", id |-> nextCall, at |-> now,
                        stored |-> authFile, session |-> getSession(Cur),
                        result |-> isLoggedIn(Cur)]}])

AuthGetSessionWithRefresh ==
    /\ phase = "auth"
    /\ nextCall <= MaxCalls
    /\ Commit(getSessionWithRefresh(Cur))

AuthRefreshToken ==
    /\ phase = "auth"
    /\ nextCall <= MaxCalls
    /\ Commit(refreshToken(Cur, "direct"))

\* the Identity Service answers a refresh request, or the request fails
RefreshReply ==
    \E r \in refreshes, outcome \in {"ok", "invalid", "refused", "neterr"} :
        Commit(IF outcome = "ok" THEN refreshReplyOk(Cur, r)
               ELSE refreshReplyFailed(Cur, r, outcome))

AuthLogout ==
    /\ phase = "auth"
    /\ nextCall <= MaxCalls
    /\ logoutCall.pc \in {"idle", "done"}
    /\ Commit(logout(Cur))

\* the revocation endpoint answers, or the request fails
LogoutReply ==
    /\ logoutCall.pc = "await"
    /\ \E outcome \in {"200", "non200", "neterr"} :
          Commit(logoutFinish(Cur, outcome))

\* the revocation endpoint has accepted the connection and stays silent: the
\* request has no timeout, so neither 'end' nor 'error' will be emitted
LogoutHang ==
    /\ logoutCall.pc = "await"
    /\ Commit([Cur EXCEPT !.logoutCall.pc = "hung"])

AuthProcessQueue ==
    /\ phase = "auth"
    /\ nextCall <= MaxCalls
    /\ drains["startup"].pc = "idle"
    /\ Commit(processQueue([Cur EXCEPT !.nextCall = @ + 1], "startup", NoNum))

\* ---- secure-storage.js and queue.js on the bytes of their files ----------
\* what a file may hold before the program touches it: nothing, text that is
\* not JSON, the plaintext JSON an earlier version wrote, or other JSON
AuthContents ==
    {NoFile, Garbage, JsonFile(CredentialDoc), JsonFile(BadEnvelopeDoc)}

QueueContents ==
    {NoFile, Garbage, JsonFile(QueueDoc), JsonFile(BadQueueDoc),
     JsonFile(BadEnvelopeDoc)}

InitStore ==
    /\ now = TickMs
    /\ startTime = NoNum
    /\ currentTaskName = JNull
    /\ sessionClientId = NoNum
    /\ isPaused = FALSE
    /\ pausedDuration = 0
    /\ pauseStartTime = NoNum
    /\ authFile = NoAuth
    /\ repoInfo = NULL
    /\ remote = <<>>
    /\ nextUuid = 1
    /\ ends = [h \in H |-> "idle"]
    /\ drains = [d \in D |-> IdleDrain]
    /\ nextEid = 1
    /\ truePaused = 0
    /\ finalized = {}
    /\ returned = {}
    /\ deliveries = {}
    /\ crashPoint = "none"
    /\ refreshes = {}
    /\ logoutCall = IdleLogout
    /\ nextCall = 1
    /\ authLog = {}
    /\ FreshDisk
    /\ phase = "store"
    /\ storeLog = {}
    /\ ledgerDisk = NoFile
    /\ writer = IdleWriter
    /\ poll = IdlePoll
    /\ calls = NoCalls
    /\ summaries = {}
    /\ network = "up"
    /\ argv = <<>>
    /\ taskInput = Undefined
    /\ loginPc = "idle"
    /\ migration = IdleMigration
    /\ \/ /\ sealed = Unsealed("auth")
          /\ authDisk \in AuthContents
          /\ queueDisk = NoFile
       \/ /\ sealed = Unsealed("queue")
          /\ authDisk = NoFile
          /\ queueDisk \in QueueContents

\* the content of the file the run works on
DiskOf(S) == IF S.sealed.file = "auth" THEN S.authDisk ELSE S.queueDisk

SetDisk(S, content) ==
    IF S.sealed.file = "auth" THEN [S EXCEPT !.authDisk = content]
    ELSE [S EXCEPT !.queueDisk = content]

\* the program writes the file: writeSecureAuthData / writeQueue
storeWrite(S, iv) ==
    LET x == IF S.sealed.file = "auth" THEN CredentialDoc ELSE QueueDoc
        blob == IF S.sealed.file = "auth" THEN writeSecureAuthData(x, iv)
                ELSE writeQueueFile(x, iv)
    IN [SetDisk(S, blob) EXCEPT
           !.sealed = [Unsealed(S.sealed.file) EXCEPT !.x = x, !.blob = blob,
                                                      !.by = "write"]]

StoreWrite ==
    /\ phase = "store"
    /\ DiskOf(Cur) = NoFile
    /\ \E iv \in IvChoices : Commit(storeWrite(Cur, iv))

\* the program reads the file: readSecureAuthData / readQueue
storeRead(S, iv) ==
    LET before == DiskOf(S)
        r == IF S.sealed.file = "auth" THEN readSecureAuthData(before, iv)
             ELSE readQueueFile(before, iv)
        S1 == [SetDisk(S, r.disk) EXCEPT
                  !.storeLog =
                      {[op |-> "read", file |-> S.sealed.file,
                        before |-> before, result |-> r.result,
                        after |-> r.disk, x |-> S.sealed.x,
                        pristine |-> S.sealed.blob, by |-> S.sealed.by,
                        tampered |-> S.sealed.tampered]}]
    IN IF r.disk = before THEN S1
       ELSE [S1 EXCEPT !.sealed = [Unsealed(S.sealed.file) EXCEPT
                                      !.x = before.value, !.blob = r.disk,
                                      !.by = "migration"]]

StoreRead ==
    /\ phase = "store"
    /\ \E iv \in IvChoices : Commit(storeRead(Cur, iv))

\* decrypt applied to the content of the file
StoreDecrypt ==
    /\ phase = "store"
    /\ sealed.blob # NoFile
    /\ Commit([Cur EXCEPT
                  !.storeLog =
                      {[op |-> "decrypt", file |-> sealed.file,
                        before |-> DiskOf(Cur),
                        result |-> decrypt(DiskOf(Cur)),
                        after |-> DiskOf(Cur), x |-> sealed.x,
                        pristine |-> sealed.blob, by |-> sealed.by,
                        tampered |-> sealed.tampered]}])

\* what a byte of the envelope is changed to: another hex digit, the same
\* digit in upper case, or a character that is no hex digit
TamperKinds == {"digit", "case", "nonhex"}

Replacement(c, kind) ==
    IF kind = "digit" THEN LowerHex[((HexVal(c) + 1) % 16) + 1]
    ELSE IF kind = "case" THEN UpperHex[HexVal(c) + 1]
    ELSE "g"

EnvelopeFields == {"iv", "tag", "data"}

\* the envelope with one character of one hex field replaced
tamper(content, field, pos, char) ==
    JsonFile(JObj([content.value.fields EXCEPT
                      ![field] = JStr([@.s EXCEPT ![pos] = char])]))

\* something outside the program changes one byte of the nonce, the tag or
\* the ciphertext of the envelope on disk
StoreTamper ==
    /\ phase = "store"
    /\ sealed.x \in {CredentialDoc, QueueDoc}
    /\ ~sealed.tampered
    /\ DiskOf(Cur) = sealed.blob
    /\ \E field \in EnvelopeFields :
         \E pos \in 1..Len(sealed.blob.value.fields[field].s),
            kind \in TamperKinds :
             LET c == sealed.blob.value.fields[field].s[pos]
                 char == Replacement(c, kind)
             IN /\ c # char
                /\ Commit([SetDisk(Cur, tamper(sealed.blob, field, pos, char))
                              EXCEPT !.sealed = [@ EXCEPT !.tampered = TRUE,
                                                          !.field = field,
                                                          !.pos = pos,
                                                          !.char = char]])

\* ---- the exported functions called directly ------------------------------
ApiStartSession ==
    /\ phase = "api"
    /\ endGuard(Cur)
    /\ nextUuid <= MaxSessions
    /\ \E taskName \in TaskChoices : Commit(startSession(Cur, taskName))

ApiSetTaskName ==
    /\ phase = "api"
    /\ ~endGuard(Cur)
    /\ \E taskName \in TaskChoices : Commit(setTaskName(Cur, taskName))

ApiEndSession ==
    \E h \in H :
        /\ phase = "api"
        /\ ends[h] # "awaiting"
        /\ Commit(endSession(Cur, h))

Next ==
    \/ Tick
    \/ RunStart
    \/ Boot
    \/ Pause
    \/ Resume
    \/ Signal
    \/ ChildExit
    \/ RepoReply
    \/ CheckReply
    \/ InsertReply
    \/ Crash
    \/ EndSessionCrash

Spec == Init /\ [][Next]_vars

NextDrain ==
    \/ Tick
    \/ RunStart
    \/ Boot
    \/ Signal
    \/ ChildExit
    \/ RepoReply
    \/ CheckReply
    \/ InsertReply
    \/ Crash
    \/ EndSessionCrash

SpecDrain == InitDrain /\ [][NextDrain]_vars

NextApi ==
    \/ Tick
    \/ ApiStartSession
    \/ ApiSetTaskName
    \/ Pause
    \/ Resume
    \/ ApiEndSession
    \/ RepoReply
    \/ CheckReply
    \/ InsertReply

SpecApi == InitApi /\ [][NextApi]_vars

NextAuth ==
    \/ Tick
    \/ AuthIsLoggedIn
    \/ AuthGetSessionWithRefresh
    \/ AuthRefreshToken
    \/ RefreshReply
    \/ AuthLogout
    \/ LogoutReply
    \/ LogoutHang
    \/ AuthProcessQueue
    \/ RepoReply
    \/ CheckReply
    \/ InsertReply

SpecAuth == InitAuth /\ [][NextAuth]_vars

\* the network layer delivers the response or the error of a request whose
\* endpoint has not gone silent
SpecAuthLive ==
    InitAuth /\ [][NextAuth]_vars /\ WF_vars(LogoutReply) /\ WF_vars(RefreshReply)

NextStore ==
    \/ StoreWrite
    \/ StoreRead
    \/ StoreDecrypt
    \/ StoreTamper

SpecStore == InitStore /\ [][NextStore]_vars

\* ---- fs.writeFileSync, as the operating system runs it -------------------
\* the write calls one fs.writeFileSync needs for its data
MaxChunks == 2
\* the writes of one run
MaxWrites == 2

\* the file after the first n write calls of content; opening with flag 'w'
\* has truncated it, so nothing of the earlier content is left
Partial(content, n) ==
    [t |-> "text", json |-> FALSE, of |-> IF n = 0 THEN NoFile ELSE content,
     chunks |-> n]

FileOf(S, file) ==
    IF file = "auth" THEN S.authDisk
    ELSE IF file = "queue" THEN S.queueDisk
    ELSE S.ledgerDisk

SetFile(S, file, content) ==
    IF file = "auth" THEN [S EXCEPT !.authDisk = content]
    ELSE IF file = "queue" THEN [S EXCEPT !.queueDisk = content]
    ELSE [S EXCEPT !.ledgerDisk = content]

\* fs.writeFileSync(file, content) up to its first write call: the file is
\* opened with flag 'w'; legacy: the handler had read a plaintext file
writeFileOpen(S, file, content, legacy) ==
    [SetFile(S, file, Partial(content, 0)) EXCEPT
        !.writer = [pc |-> "writing", file |-> file, old |-> FileOf(S, file),
                    new |-> content, written |-> 0, n |-> S.writer.n + 1,
                    legacy |-> legacy]]

\* one write call of fs.writeFileSync; the last one is followed by the close
writeFileChunk(S) ==
    LET w == S.writer IN
    IF w.written + 1 >= MaxChunks
    THEN [SetFile(S, w.file, w.new) EXCEPT
             !.writer = [w EXCEPT !.pc = "closed", !.written = @ + 1]]
    ELSE [SetFile(S, w.file, Partial(w.new, w.written + 1)) EXCEPT
             !.writer = [w EXCEPT !.written = @ + 1]]

\* ---- store.js: the ledger file --------------------------------------------
\* { sessions: [] }
EmptyStoreDoc == JObj([sessions |-> JArr(<<>>)])

\* the ledger an earlier version left in plaintext
LegacyStoreDoc ==
    JObj([sessions |-> JArr(<<JObj([start |-> JNum(1), end |-> JNum(2)])>>)])

\* the entry addSession pushes
StoreEntryDoc ==
    JObj([start |-> JNum(3), end |-> JNum(4), taskName |-> JNull,
          clientId |-> JStr(<<"c">>)])

UISettingsDoc == JObj([theme |-> JStr(<<"d">>)])

\* a ledger of two sessions, the second one with a task and a clientId, and
\* settings of the dashboard
FullStoreDoc ==
    JObj([sessions |->
              JArr(<<JObj([start |-> JNum(1), end |-> JNum(2)]),
                     JObj([start |-> JNum(2), end |-> JNum(3),
                           taskName |-> JStr(<<"t">>),
                           clientId |-> JStr(<<"b">>)])>>),
          uiSettings |-> JObj([theme |-> JStr(<<"l">>)])])

\* validateStoreData without its loop over the sessions
validateStoreDataSessionsOnly(data) ==
    /\ Truthy(data)
    /\ data.t \in {"object", "array"}
    /\ Get(data, "sessions").t = "array"

validateStoreData(data) ==
    /\ Truthy(data)
    /\ data.t \in {"object", "array"}
    /\ Get(data, "sessions").t = "array"
    /\ \A k \in 1..Len(Get(data, "sessions").items) :
          LET session == Get(data, "sessions").items[k] IN
          /\ Get(session, "start").t = "number"
          /\ Get(session, "end").t = "number"

\* validateStoreData(data) throws a TypeError: the loop comes to an element
\* that is null, whose start cannot be read, before one that makes it
\* return false
validateStoreDataThrows(data) ==
    /\ Truthy(data)
    /\ Get(data, "sessions").t = "array"
    /\ \E k \in 1..Len(Get(data, "sessions").items) :
          /\ Get(data, "sessions").items[k].t = "null"
          /\ \A j \in 1..(k - 1) :
                LET session == Get(data, "sessions").items[j] IN
                /\ Get(session, "start").t = "number"
                /\ Get(session, "end").t = "number"

\* readStore(), on the content of the file; the catch returns the empty
\* ledger for a SyntaxError of JSON.parse and for a TypeError of the
\* validation alike
readStore(content) ==
    IF content = NoFile THEN EmptyStoreDoc
    ELSE IF ~content.json THEN EmptyStoreDoc
    ELSE IF validateStoreDataThrows(content.value) THEN EmptyStoreDoc
    ELSE IF ~validateStoreData(content.value) THEN EmptyStoreDoc
    ELSE content.value

\* writeStore(data): the content it hands to fs.writeFileSync, the text of
\* JSON.stringify(data, null, 2)
writeStore(data) == JsonFile(data)

\* store.x = value
SetField(store, name, value) ==
    JObj([k \in DOMAIN store.fields \cup {name} |->
             IF k = name THEN value ELSE store.fields[k]])

\* store.sessions.push(...) of addSession throws a TypeError: sessions is
\* no array
addSessionThrows(content) ==
    Get(readStore(content), "sessions").t # "array"

\* an addSession that writes a ledger of its own making
addSessionFileRebuilt(content, session) ==
    LET store == readStore(content) IN
    writeStore(JObj([sessions |->
                        JArr(Append(Get(store, "sessions").items, session))]))

\* addSession up to its writeStore: the content it writes
addSessionFile(content, session) ==
    LET store == readStore(content) IN
    writeStore(SetField(store, "sessions",
                        JArr(Append(Get(store, "sessions").items, session))))

\* saveUISettings(settings): the content it writes
saveUISettings(content, settings) ==
    writeStore(SetField(readStore(content), "uiSettings", settings))

\* the file holds plaintext that readStore parses and accepts
LegacyStore(content) ==
    /\ content # NoFile
    /\ content.json
    /\ ~isEncrypted(content)
    /\ validateStoreData(content.value)

\* ---- the three files under concurrent readers and kills ------------------
\* ledgers that are no ledger: a string, sessions that is no array, an entry
\* whose start is a string, an entry that is null
CorruptStoreDocs ==
    {JStr(<<"x">>),
     JObj([sessions |-> JObj([start |-> JNum(1), end |-> JNum(2)])]),
     JObj([sessions |->
              JArr(<<JObj([start |-> JNum(1), end |-> JNum(2)]),
                     JObj([start |-> JStr(<<"1">>), end |-> JNum(2)])>>)]),
     JObj([sessions |-> JArr(<<JNull>>)])}

LedgerContents ==
    {NoFile, Garbage, JsonFile(LegacyStoreDoc), JsonFile(FullStoreDoc)}
        \cup {JsonFile(doc) : doc \in CorruptStoreDocs}

InitFile ==
    /\ now = TickMs
    /\ startTime = NoNum
    /\ currentTaskName = JNull
    /\ sessionClientId = NoNum
    /\ isPaused = FALSE
    /\ pausedDuration = 0
    /\ pauseStartTime = NoNum
    /\ authFile = NoAuth
    /\ repoInfo = NULL
    /\ remote = <<>>
    /\ nextUuid = 1
    /\ ends = [h \in H |-> "idle"]
    /\ drains = [d \in D |-> IdleDrain]
    /\ nextEid = 1
    /\ truePaused = 0
    /\ finalized = {}
    /\ returned = {}
    /\ deliveries = {}
    /\ crashPoint = "none"
    /\ refreshes = {}
    /\ logoutCall = IdleLogout
    /\ nextCall = 1
    /\ authLog = {}
    /\ FreshDisk
    /\ phase = "file"
    /\ storeLog = {}
    /\ writer = IdleWriter
    /\ poll = IdlePoll
    /\ calls = NoCalls
    /\ summaries = {}
    /\ network = "up"
    /\ argv = <<>>
    /\ taskInput = Undefined
    /\ loginPc = "idle"
    /\ migration = IdleMigration
    /\ \/ /\ sealed = Unsealed("auth")
          /\ authDisk \in {NoFile} \cup
                 {writeSecureAuthData(CredentialDoc, iv) : iv \in IvChoices}
          /\ queueDisk = NoFile
          /\ ledgerDisk = NoFile
       \/ /\ sealed = Unsealed("queue")
          /\ authDisk = NoFile
          /\ queueDisk \in {NoFile} \cup
                 {writeQueueFile(QueueDoc, iv) : iv \in IvChoices}
          /\ ledgerDisk = NoFile
       \/ /\ sealed = Unsealed("ledger")
          /\ authDisk = NoFile
          /\ queueDisk = NoFile
          /\ ledgerDisk \in LedgerContents

\* a handler may start a write: none is running in this process
MayWrite(file) ==
    /\ phase = "file"
    /\ sealed.file = file
    /\ writer.pc # "writing"
    /\ writer.n < MaxWrites

\* writeSecureAuthData(data)
FileWriteAuth ==
    /\ MayWrite("auth")
    /\ \E iv \in IvChoices :
          Commit(writeFileOpen(Cur, "auth",
                               writeSecureAuthData(CredentialDoc, iv), FALSE))

\* writeQueue(queue)
FileWriteQueue ==
    /\ MayWrite("queue")
    /\ \E iv \in IvChoices :
          Commit(writeFileOpen(Cur, "queue",
                               writeQueueFile(QueueDoc, iv), FALSE))

\* addSession: readStore, push, writeStore; a throw of the push leaves
\* the function before anything is written
addSessionStep(S, session) ==
    IF addSessionThrows(S.ledgerDisk)
    THEN [S EXCEPT
             !.storeLog = {[op |-> "threw", file |-> "ledger",
                            before |-> S.ledgerDisk, result |-> Undefined,
                            old |-> S.ledgerDisk, new |-> S.ledgerDisk,
                            pc |-> S.writer.pc]},
             !.writer = [@ EXCEPT !.n = @ + 1]]
    ELSE writeFileOpen(S, "ledger", addSessionFile(S.ledgerDisk, session),
                       LegacyStore(S.ledgerDisk))

FileAddSession ==
    /\ MayWrite("ledger")
    /\ Commit(addSessionStep(Cur, StoreEntryDoc))

\* POST /api/settings: saveUISettings
FileSaveUISettings ==
    /\ MayWrite("ledger")
    /\ Commit(writeFileOpen(Cur, "ledger",
                            saveUISettings(ledgerDisk, UISettingsDoc),
                            LegacyStore(ledgerDisk)))

\* the operating system runs the next write call of the open file
FileWriteChunk ==
    /\ phase = "file"
    /\ writer.pc = "writing"
    /\ Commit(writeFileChunk(Cur))

\* the writing process is killed between two system calls
FileKill ==
    /\ phase = "file"
    /\ writer.pc = "writing"
    /\ Commit([Cur EXCEPT !.writer = [@ EXCEPT !.pc = "killed"]])

\* a process reads the file: readSecureAuthData / readQueue / readStore
fileRead(S, iv) ==
    LET file == S.sealed.file
        before == FileOf(S, file)
        r == IF file = "auth" THEN readSecureAuthData(before, iv)
             ELSE IF file = "queue" THEN readQueueFile(before, iv)
             ELSE [result |-> readStore(before), disk |-> before]
        w == S.writer
    IN [SetFile(S, file, r.disk) EXCEPT
           !.storeLog =
               {[op |-> "read", file |-> file, before |-> before,
                 result |-> r.result,
                 old |-> IF w.pc = "idle" THEN before ELSE w.old,
                 new |-> IF w.pc = "idle" THEN before ELSE w.new,
                 pc |-> w.pc]}]

FileRead ==
    /\ phase = "file"
    /\ \E iv \in IvChoices : Commit(fileRead(Cur, iv))

NextFile ==
    \/ FileWriteAuth
    \/ FileWriteQueue
    \/ FileAddSession
    \/ FileSaveUISettings
    \/ FileWriteChunk
    \/ FileKill
    \/ FileRead

SpecFile == InitFile /\ [][NextFile]_vars

\* ---- auth.js: pollForToken -----------------------------------------------
\* const maxAttempts = 60
maxAttempts == 60
\* interval += 5
SlowDownStep == 5
\* the interval startDeviceFlow hands over: the default, or GitHub's
IntervalChoices == {5, 10}

\* what the token endpoint may answer to one poll
PollResponses ==
    {"authorization_pending", "slow_down", "error", "token", "other", "neterr"}

\* pollForToken(deviceCode, interval) up to the first await of poll()
pollForToken(S, interval) ==
    [S EXCEPT !.poll = [IdlePoll EXCEPT !.pc = "request", !.requests = 1,
                                        !.initial = interval,
                                        !.interval = interval]]

\* poll() that leaves the interval alone on slow_down
pollReplyKeepsInterval(S, kind) ==
    [S EXCEPT !.poll =
        IF kind \in {"authorization_pending", "slow_down", "other"}
        THEN [@ EXCEPT !.pc = "wait", !.last = kind,
                       !.slowDowns = IF kind = "slow_down" THEN @ + 1 ELSE @]
        ELSE [@ EXCEPT !.pc = IF kind = "token" THEN "returned" ELSE "threw",
                       !.last = kind, !.result = kind]]

\* the request of poll() settles and pollForToken runs up to its timer, its
\* return or its throw; kind: what came back
pollReply(S, kind) ==
    LET p == [S.poll EXCEPT !.last = kind] IN
    [S EXCEPT !.poll =
        IF kind = "neterr"
        THEN [p EXCEPT !.pc = "threw", !.result = "neterr"]
        ELSE IF kind = "authorization_pending"
        THEN [p EXCEPT !.pc = "wait"]
        ELSE IF kind = "slow_down"
        THEN [p EXCEPT !.pc = "wait", !.interval = @ + SlowDownStep,
                       !.slowDowns = @ + 1]
        ELSE IF kind = "error"
        THEN [p EXCEPT !.pc = "threw", !.result = "error"]
        ELSE IF kind = "token"
        THEN [p EXCEPT !.pc = "returned", !.result = "token"]
        ELSE [p EXCEPT !.pc = "wait"]]

\* the timer of interval * 1000 ms fires: attempt++, then the loop test
pollTimer(S) ==
    LET p == [S.poll EXCEPT !.attempt = @ + 1, !.waited = S.poll.interval] IN
    [S EXCEPT !.poll =
        IF p.attempt < maxAttempts
        THEN [p EXCEPT !.pc = "request", !.requests = @ + 1]
        ELSE [p EXCEPT !.pc = "threw", !.result = "timeout"]]

InitPoll ==
    /\ InitCommon
    /\ FreshDisk
    /\ phase = "poll"
    /\ authFile = NoAuth
    /\ repoInfo = NULL

PollStart ==
    /\ phase = "poll"
    /\ poll.pc = "idle"
    /\ \E interval \in IntervalChoices : Commit(pollForToken(Cur, interval))

PollReply ==
    /\ poll.pc = "request"
    /\ \E kind \in PollResponses : Commit(pollReply(Cur, kind))

\* the token endpoint has accepted the connection and stays silent: the
\* request has no timeout
PollHang ==
    /\ poll.pc = "request"
    /\ Commit([Cur EXCEPT !.poll = [@ EXCEPT !.pc = "hung"]])

PollTimer ==
    /\ poll.pc = "wait"
    /\ Commit(pollTimer(Cur))

NextPoll ==
    \/ PollStart
    \/ PollReply
    \/ PollHang
    \/ PollTimer

SpecPoll == InitPoll /\ [][NextPoll]_vars

\* responses and timers that are due are delivered
SpecPollLive ==
    InitPoll /\ [][NextPoll]_vars /\ WF_vars(PollReply) /\ WF_vars(PollTimer)

\* ---- tracker.js called in any order --------------------------------------
\* getDuration()
getDuration(S) ==
    IF Falsy(S.startTime) THEN 0
    ELSE LET currentPauseDuration ==
                 IF S.isPaused /\ ~Falsy(S.pauseStartTime)
                 THEN S.now - S.pauseStartTime ELSE 0
         IN S.now - S.startTime - S.pausedDuration - currentPauseDuration

\* what pauseSession() and resumeSession() return
pauseSessionReturn(S) == IF ~pauseGuard(S) THEN FALSE ELSE TRUE

resumeSessionReturn(S) == IF ~resumeGuard(S) THEN FALSE ELSE TRUE

\* the history of a call: its name and what it returned
called(S, op, result) ==
    [S EXCEPT !.calls = [@ EXCEPT !.op = op, !.result = result]]

\* the history of a getDuration() call; worked: the time since the start
\* that the session did not spend paused
read(S) ==
    [S EXCEPT !.calls =
        [@ EXCEPT !.op = "getDuration", !.result = FALSE,
                  !.reading =
                      [taken |-> TRUE, value |-> getDuration(S),
                       at |-> S.now, clientId |-> S.sessionClientId,
                       isPaused |-> S.isPaused,
                       pauseStartTime |-> S.pauseStartTime,
                       ending |-> \E h \in H : S.ends[h] = "awaiting",
                       worked |-> IF Falsy(S.startTime) THEN 0
                                  ELSE S.now - S.startTime - S.truePaused]]]

InitEngine ==
    /\ InitCommon
    /\ FreshDisk
    /\ phase = "api"
    /\ authFile \in {NoAuth, [expiresAt |-> (MaxTicks + 1) * TickSec,
                              userId |-> "u1"]}
    /\ repoInfo = "owner/repo"

\* startSession(), as runTracker calls it; it has no guard. Restarts are
\* followed where ending a session involves no network call
EngineStartSession ==
    /\ phase = "api"
    /\ nextUuid <= (IF authFile = NoAuth THEN MaxSessions + 1 ELSE 1)
    /\ LET S1 == startSession(Cur, JNull) IN
       Commit([called(S1, "startSession", FALSE) EXCEPT
                  !.calls.started =
                      @ \cup {[clientId |-> S1.sessionClientId,
                               start |-> S1.startTime]}])

\* setTaskName(taskName), as the task prompt calls it
EngineSetTaskName ==
    /\ phase = "api"
    /\ ~endGuard(Cur)
    /\ Commit(called(setTaskName(Cur, TaskName), "setTaskName", FALSE))

EnginePause ==
    /\ phase = "api"
    /\ Commit(called(pauseSession(Cur), "pauseSession",
                     pauseSessionReturn(Cur)))

EngineResume ==
    /\ phase = "api"
    /\ Commit(called(resumeSession(Cur), "resumeSession",
                     resumeSessionReturn(Cur)))

\* GET /api/stats of the dashboard server, or a direct call
EngineGetDuration ==
    /\ phase = "api"
    /\ Commit(read(Cur))

\* endSession(), one call at a time
EngineEndSession ==
    /\ phase = "api"
    /\ ends["signal"] # "awaiting"
    /\ Commit(called(endSession(Cur, "signal"), "endSession", FALSE))

NextEngine ==
    \/ Tick
    \/ EngineStartSession
    \/ EngineSetTaskName
    \/ EnginePause
    \/ EngineResume
    \/ EngineGetDuration
    \/ EngineEndSession
    \/ RepoReply
    \/ CheckReply
    \/ InsertReply

SpecEngine == InitEngine /\ [][NextEngine]_vars

\* ---- an outage of the network, and runs of the command line after it ----
\* a request sent now gets to the remote and back
Reachable(S) == S.network # "down"

\* the run that starts now is the last one followed
LastRun(S) == S.nextUuid > MaxSessions

InitOffline ==
    /\ InitCommon
    /\ FreshDisk \/ UsedDisk
    /\ phase = "none"
    /\ authFile = [expiresAt |-> (MaxTicks + 1) * TickSec, userId |-> "u1"]
    /\ repoInfo = "owner/repo"

\* the network goes down, once, while at least one more run is to come
Outage ==
    /\ network = "up"
    /\ phase # "none" => ~LastRun([Cur EXCEPT !.nextUuid = @ - 1])
    /\ Commit([Cur EXCEPT !.network = "down"])

\* connectivity returns, for good
Restore ==
    /\ network = "down"
    /\ Commit([Cur EXCEPT !.network = "back"])

\* the command line is run again; the last run followed starts when the
\* remote can be reached
Rerun ==
    /\ phase \in {"exited", "crashed"}
    /\ nextUuid <= MaxSessions + 1
    /\ LastRun(Cur) => Reachable(Cur)
    /\ Commit([Cur EXCEPT !.phase = "none"])

\* the first run, or the run after Rerun
OfflineRunStart ==
    /\ LastRun(Cur) => Reachable(Cur)
    /\ RunStart

\* the process is killed, in a run that is not the last one followed
OfflineCrash ==
    /\ ~LastRun([Cur EXCEPT !.nextUuid = @ - 1])
    /\ Crash

\* the requests of a suspended syncSession are answered if the remote can be
\* reached, and fail if not
NetRepoReply ==
    \E d \in D :
        /\ drains[d].pc = "repo"
        /\ Commit(getOrCreate(Cur, d, Reachable(Cur)))

NetCheckReply ==
    \E d \in D :
        /\ drains[d].pc = "check"
        /\ Commit(checkDuplicate(Cur, d, Reachable(Cur)))

NetInsertReply ==
    \E d \in D :
        /\ drains[d].pc = "insert"
        /\ Commit(insertSession(Cur, d, IF Reachable(Cur) THEN "ok"
                                        ELSE "down"))

NextOffline ==
    \/ Outage
    \/ Restore
    \/ OfflineRunStart
    \/ Boot
    \/ Signal
    \/ NetRepoReply
    \/ NetCheckReply
    \/ NetInsertReply
    \/ OfflineCrash
    \/ Rerun

\* connectivity returns
SpecOffline == InitOffline /\ [][NextOffline]_vars /\ WF_vars(Restore)

\* ---- bin/index.js: the entry point and validateCommand --------------------
\* the characters of the class SHELL_METACHARACTERS; the grave accent is
\* written "grave"
SHELL_METACHARACTERS ==
    {";", "&", "|", "grave", "$", "(", ")", "{", "}", "[", "]", "<", ">", "!",
     "\\"}

\* login, logout, stats, migrate, help, --help, -h, as their characters
subcommands ==
    {<<"l", "o", "g", "i", "n">>, <<"l", "o", "g", "o", "u", "t">>,
     <<"s", "t", "a", "t", "s">>, <<"m", "i", "g", "r", "a", "t", "e">>,
     <<"h", "e", "l", "p">>, <<"-", "-", "h", "e", "l", "p">>, <<"-", "h">>}

\* args.join(" ")
RECURSIVE join(_)
join(args) ==
    IF Len(args) = 0 THEN <<>>
    ELSE IF Len(args) = 1 THEN args[1]
    ELSE args[1] \o <<" ">> \o join(Tail(args))

\* SHELL_METACHARACTERS.test(text)
test(text) == \E i \in 1..Len(text) : text[i] \in SHELL_METACHARACTERS

\* validateCommand that looks at the executable only
validateCommandFirstArg(args) ==
    IF Len(args) = 0 THEN [exit |-> FALSE, command |-> <<>>]
    ELSE IF test(args[1]) THEN [exit |-> TRUE, command |-> <<>>]
    ELSE [exit |-> FALSE, command |-> args]

\* validateCommand(args): process.exit(1), or the command it returns
validateCommand(args) ==
    IF Len(args) = 0 THEN [exit |-> FALSE, command |-> <<>>]
    ELSE IF test(join(args)) THEN [exit |-> TRUE, command |-> <<>>]
    ELSE [exit |-> FALSE, command |-> args]

\* runTracker(argv) up to its first await
runTracker(S, args) ==
    LET v == validateCommand(args) IN
    IF v.exit THEN [S EXCEPT !.phase = "exited"]
    ELSE IF Len(v.command) = 0 THEN [S EXCEPT !.phase = "exited"]
    ELSE runTrackerBegin(S)

\* the module body of bin/index.js: a subcommand goes to yargs, anything
\* else is the command to track
main(S, args) ==
    LET S1 == [S EXCEPT !.argv = args] IN
    IF Len(args) > 0 /\ args[1] \in subcommands
    THEN [S1 EXCEPT !.phase = "subcommand"]
    ELSE runTracker(S1, args)

\* command lines: none, ls -l, stats ;, and for each metacharacter c
\* "ls c" and "acb"
Commands ==
    {<<>>, <<<<"l", "s">>, <<"-", "l">>>>,
     <<<<"s", "t", "a", "t", "s">>, <<";">>>>}
        \cup {<<<<"l", "s">>, <<c>>>> : c \in SHELL_METACHARACTERS}
        \cup {<<<<"a", c, "b">>>> : c \in SHELL_METACHARACTERS}

InitCli == InitDrain

\* dev-timr is run with a command line
CliRun ==
    /\ phase = "none"
    /\ \E args \in Commands : Commit(main(Cur, args))

NextCli ==
    \/ CliRun
    \/ Boot
    \/ Signal
    \/ ChildExit
    \/ RepoReply
    \/ CheckReply
    \/ InsertReply

SpecCli == InitCli /\ [][NextCli]_vars

\* ---- tracker.js: setTaskName on any argument -----------------------------
\* the longest run of letters in an argument
MaxPad == 101

\* n times the letter a
Pad(n) == [i \in 1..n |-> 97]

PadLengths == {0, 1, MaxTaskNameLength - 1, MaxTaskNameLength, MaxPad}

\* what stands before and after the letters: nothing, a space, a tab, <,
\* $b, DEL, a no-break space, b and a space, US and a grave accent, a NUL
\* between letters
Pieces ==
    {<<>>, <<32>>, <<9>>, <<60>>, <<36, 98>>, <<127>>, <<160>>, <<98, 32>>,
     <<31, 96>>, <<98, 0, 98>>}

\* arguments of setTaskName: strings, and values that are no string
TaskInputs ==
    {JStr(before \o Pad(n) \o after) :
        before \in Pieces, n \in PadLengths, after \in Pieces}
        \cup {Undefined, JNull, JNum(0), JNum(5), JArr(<<>>),
              JObj([name |-> TaskName])}

InitTask ==
    /\ InitCommon
    /\ FreshDisk
    /\ phase = "task"
    /\ authFile = NoAuth
    /\ repoInfo = NULL

\* setTaskName(taskName), from the prompt of the command line or from a
\* program that imports tracker.js
TaskSetTaskName ==
    /\ phase = "task"
    /\ \E taskName \in TaskInputs :
          Commit([setTaskName(Cur, taskName) EXCEPT !.taskInput = taskName])

NextTask == TaskSetTaskName

SpecTask == InitTask /\ [][NextTask]_vars

\* ---- bin/login.js --------------------------------------------------------
\* completeLogin: the record of the new login is written
completeLogin(S) ==
    writeAuthData(S, [expiresAt |-> (S.now \div MsPerSec) + SessionLifetimeSec,
                      userId |-> "u1", githubToken |-> "gh3",
                      accessToken |-> "jwt3", lastRefresh |-> NoNum])

\* login() up to the start of the device flow: a user who is logged in is
\* asked; on yes logout() is called and not awaited
login(S, confirm) ==
    IF ~isLoggedIn(S) THEN [S EXCEPT !.loginPc = "flow"]
    ELSE IF ~confirm THEN [S EXCEPT !.loginPc = "declined"]
    ELSE [logout(S) EXCEPT !.loginPc = "flow"]

\* process.exit(1) in the catch of login(): a logout that waits for its
\* response goes with the process
loginFailed(S) ==
    [S EXCEPT !.loginPc = "failed",
              !.logoutCall.pc = IF @ = "await" THEN "killed" ELSE @]

InitLogin == InitAuth

\* dev-timr login
LoginStart ==
    /\ loginPc = "idle"
    /\ logoutCall.pc = "idle"
    /\ \E confirm \in BOOLEAN : Commit(login(Cur, confirm))

\* the device flow, the polling, getGitHubUser and signInToSupabase have
\* succeeded: completeLogin, then the request of ensureUserProfile
LoginComplete ==
    /\ loginPc = "flow"
    /\ Commit([completeLogin(Cur) EXCEPT !.loginPc = "profile"])

\* one of them has thrown
LoginFlowFails ==
    /\ loginPc = "flow"
    /\ Commit(loginFailed(Cur))

\* ensureUserProfile returns, and login() with it, or throws
LoginProfileReply ==
    /\ loginPc = "profile"
    /\ \E ok \in BOOLEAN :
          Commit(IF ok THEN [Cur EXCEPT !.loginPc = "done"]
                 ELSE loginFailed(Cur))

NextLogin ==
    \/ LoginStart
    \/ LoginComplete
    \/ LoginFlowFails
    \/ LoginProfileReply
    \/ LogoutReply
    \/ LogoutHang
    \/ Tick

SpecLogin == InitLogin /\ [][NextLogin]_vars

\* ---- bin/migrate.js ------------------------------------------------------
\* store.js: getLocalSessions
getLocalSessions(S) == S.ledger

\* the text legacy-<start>-<end>: client ids are numbers here, and the text
\* stands as a number below NoNum, a different one for each pair of clock
\* readings (every reading is a multiple of TickMs)
legacyClientId(start, end) ==
    0 - (2 + (start \div TickMs) * (MaxTicks + 1) + (end \div TickMs))

\* migrate that passes the clientId of the ledger on as it is
sessionDataAsStored(S, session) ==
    [start |-> session.start, end |-> session.end,
     taskName |-> session.taskName, clientId |-> session.clientId,
     repo |-> getRepoInfo(S)]

\* the sessionData migrate hands to syncSession
sessionData(S, session) ==
    [start |-> session.start, end |-> session.end,
     taskName |-> IF Truthy(session.taskName) THEN session.taskName ELSE JNull,
     clientId |-> IF session.clientId # NoNum THEN session.clientId
                  ELSE legacyClientId(session.start, session.end),
     repo |-> getRepoInfo(S)]

\* catch (err) { failed++; }
migrateFailed(S) ==
    [S EXCEPT !.migration.failed = @ + 1, !.migration.i = @ + 1]

\* await syncSession(sessionData) has returned: success++
migrateSynced(S) ==
    [S EXCEPT !.migration.success = @ + 1, !.migration.i = @ + 1]

\* for (const session of sessions), up to the first request of syncSession
RECURSIVE migrateLoop(_)
migrateLoop(S) ==
    LET mg == S.migration IN
    IF mg.i > Len(mg.sessions) THEN [S EXCEPT !.migration.pc = "done"]
    ELSE LET session == mg.sessions[mg.i] IN
         IF Falsy(session.start) \/ Falsy(session.end)
         THEN migrateLoop([S EXCEPT !.migration.skipped = @ + 1,
                                    !.migration.i = @ + 1])
         ELSE IF syncSessionChecks(S, sessionData(S, session)) # "ok"
         THEN migrateLoop(migrateFailed(S))
         ELSE [S EXCEPT !.migration.pc = "repo"]

\* migrate() up to its prompt
migrate(S) ==
    IF ~isLoggedIn(S) \/ getRepoInfo(S) = NULL \/ Len(getLocalSessions(S)) = 0
    THEN [S EXCEPT !.migration = [IdleMigration EXCEPT !.pc = "exited"]]
    ELSE [S EXCEPT !.migration = [IdleMigration EXCEPT
                                     !.pc = "confirm",
                                     !.sessions = getLocalSessions(S)]]

\* the prompt answered
migrateConfirm(S, confirm) ==
    IF ~confirm THEN [S EXCEPT !.migration.pc = "exited"]
    ELSE migrateLoop([S EXCEPT !.migration.i = 1])

\* getOrCreateRepo and getOrCreateTask of migrate's syncSession answered
migrateGetOrCreate(S, reached) ==
    IF reached THEN [S EXCEPT !.migration.pc = "check"]
    ELSE migrateLoop(migrateFailed(S))

\* the duplicate check of migrate's syncSession answered
migrateCheckDuplicate(S, reached) ==
    LET session == sessionData(S, S.migration.sessions[S.migration.i])
        S1 == [S EXCEPT !.migration.saw = findExisting(S, session, reached)]
    IN IF findExisting(S, session, reached)
       THEN migrateLoop(migrateSynced(S1))
       ELSE [S1 EXCEPT !.migration.pc = "insert"]

\* the insert of migrate's syncSession answered
migrateInsert(S, net) ==
    LET session == sessionData(S, S.migration.sessions[S.migration.i]) IN
    IF net = "down" THEN migrateLoop(migrateFailed(S))
    ELSE IF uniqueViolation(S, session) THEN migrateLoop(migrateFailed(S))
    ELSE LET S1 == [S EXCEPT !.remote = Append(@,
                        [client_id |-> session.clientId,
                         start_time |-> session.start,
                         end_time |-> session.end])]
         IN IF net = "ok" THEN migrateLoop(migrateSynced(S1))
            ELSE migrateLoop(migrateFailed(S1))

\* a session an earlier version wrote, without a clientId
LegacySession ==
    [start |-> TickMs, end |-> MaxTicks * TickMs, taskName |-> JNull,
     clientId |-> NoNum]

\* a session without an end
OpenSession ==
    [start |-> TickMs, end |-> NoNum, taskName |-> JNull, clientId |-> NoNum]

\* a ledger with a session that is also in the journal, a session without a
\* clientId and a session without an end
MigrateDisk ==
    /\ ledger = <<OldSession, LegacySession, OpenSession>>
    /\ queueFile = [sessions |-> <<OldEntry(0)>>, lastSyncAttempt |-> TickMs]
    /\ tries = (0 :> 0)

InitMigrate == InitCommon /\ MigrateDisk /\ phase = "migrate"

\* dev-timr-migrate is run
MigrateStart ==
    /\ phase = "migrate"
    /\ migration.pc \in {"idle", "done", "exited"}
    /\ nextCall <= MaxCalls
    /\ Commit(migrate([Cur EXCEPT !.nextCall = @ + 1]))

MigrateConfirm ==
    /\ migration.pc = "confirm"
    /\ \E confirm \in BOOLEAN : Commit(migrateConfirm(Cur, confirm))

MigrateRepoReply ==
    /\ migration.pc = "repo"
    /\ \E reached \in BOOLEAN : Commit(migrateGetOrCreate(Cur, reached))

MigrateCheckReply ==
    /\ migration.pc = "check"
    /\ \E reached \in BOOLEAN : Commit(migrateCheckDuplicate(Cur, reached))

MigrateInsertReply ==
    /\ migration.pc = "insert"
    /\ \E net \in {"ok", "lost", "down"} : Commit(migrateInsert(Cur, net))

\* a run of dev-timr beside the migration drains the journal
MigrateDrain ==
    /\ phase = "migrate"
    /\ drains["startup"].pc = "idle"
    /\ Len(readQueue(Cur).sessions) > 0
    /\ Commit(processQueue(Cur, "startup", NoNum))

NextMigrate ==
    \/ MigrateStart
    \/ MigrateConfirm
    \/ MigrateRepoReply
    \/ MigrateCheckReply
    \/ MigrateInsertReply
    \/ MigrateDrain
    \/ RepoReply
    \/ CheckReply
    \/ InsertReply

SpecMigrate == InitMigrate /\ [][NextMigrate]_vars

\* ---- properties ----------------------------------------------------------
engine == <<startTime, currentTaskName, sessionClientId, isPaused,
            pausedDuration, pauseStartTime>>

LedgerCount(clientId) ==
    Cardinality({k \in 1..Len(ledger) : ledger[k].clientId = clientId})

QueueCount(clientId) ==
    Cardinality({k \in 1..Len(queueFile.sessions) :
                    queueFile.sessions[k].clientId = clientId})

RemoteCount(clientId) ==
    Cardinality({k \in 1..Len(remote) : remote[k].client_id = clientId})

\* C1: when the signal handler and the child-exit handler both invoke
\* endSession for the same session, the second even while the first is
\* suspended on the remote sync, exactly one ledger entry and at most one
\* queue entry exist for the clientId of that session.
C1_OneWritePerSession ==
    \A f \in finalized :
        /\ LedgerCount(f.clientId) = 1
        /\ QueueCount(f.clientId) <= 1

\* C2: endSession called when the engine is Idle (after an earlier endSession
\* completed, or with no session ever started) is a no-op: it returns at its
\* guard, and while the engine is Idle no ledger entry is appended, no queue
\* entry is created and no engine field changes.
C2_EndWhenIdleIsNoop ==
    [][/\ \A h \in H :
            (ends'[h] = "noop" /\ ends[h] # "noop") =>
                /\ startTime = NoNum
                /\ UNCHANGED <<now, engine, ledger, queueFile, authFile,
                               repoInfo, remote, phase, nextUuid, drains,
                               nextEid, tries, truePaused, finalized,
                               returned, deliveries, crashPoint>>
       /\ startTime = NoNum =>
            /\ ledger' = ledger
            /\ nextEid' = nextEid
            /\ finalized' = finalized
            /\ startTime' = NoNum => UNCHANGED engine]_vars

\* an endSession completed, and a later call returned at the guard
C2_Witness ==
    /\ ends["signal"] = "done"
    /\ ends["childExit"] = "noop"
    /\ Len(ledger) = 1
    /\ startTime = NoNum

\* C3: the duration endSession computes is end - start minus the time the
\* session spent paused, a pause still open at the end counted once.
C3_DurationExcludesPauses ==
    \A f \in finalized : f.duration = f.end - f.start - f.paused

C6_RetryCap ==
    /\ \A k \in 1..Len(queueFile.sessions) :
          /\ queueFile.sessions[k].syncAttempts >= 0
          /\ queueFile.sessions[k].syncAttempts <= MaxSyncAttempts - 1
    /\ \A e \in DOMAIN tries : tries[e] <= MaxSyncAttempts

C9_AlwaysInLedger ==
    /\ \A f \in finalized :
          \E k \in 1..Len(ledger) :
              /\ ledger[k].clientId = f.clientId
              /\ ledger[k].start = f.start
              /\ ledger[k].end = f.end
    /\ \A r \in returned : r.local

\* a session was finalized and returned with no credential and no repository
C9_Witness ==
    /\ \E f \in finalized : ~f.loggedIn /\ ~f.repo /\ LedgerCount(f.clientId) = 1
    /\ \E r \in returned : r.local /\ ~r.cloud

InRefreshWindow(authData, at) ==
    /\ authData # NoAuth
    /\ authData.expiresAt # NoNum
    /\ authData.expiresAt * MsPerSec - at > 0
    /\ authData.expiresAt * MsPerSec - at < RefreshWindowHours * MsPerHour

\* the entries the step adds to the history of auth.js calls
NewAuthLog == authLog' \ authLog

\* C11: logout deletes the local credential file and reports success for
\* every outcome of the revocation request (200, another status, a network
\* error, no stored session token); as soon as it has returned, isLoggedIn()
\* is false and getSession() is null.
C11_LogoutAlwaysClears ==
    [][logoutCall'.n > logoutCall.n =>
          /\ authFile' = NoAuth
          /\ logoutCall'.success
          /\ ~isLoggedIn(Cur)'
          /\ getSession(Cur)' = NoAuth]_vars

C11_Witness ==
    /\ logoutCall.pc = "done"
    /\ logoutCall.outcome = "neterr"
    /\ ~logoutCall.serverRevoked
    /\ authFile = NoAuth

\* C12: every invocation of logout eventually completes with the local
\* credential deleted, whatever the revocation endpoint does, including when
\* it never answers.
C12_LogoutCompletes ==
    (logoutCall.pc \in {"await", "hung"}) ~> (logoutCall.pc = "done")

\* C13: isLoggedIn() returns true if and only if a credential record exists
\* and its expiresAt is present and in the future.
C13_ValidIffUnexpired ==
    \A e \in authLog :
        e.op = "isLoggedIn" =>
            (e.result <=> /\ e.stored # NoAuth
                          /\ e.stored.expiresAt # NoNum
                          /\ e.stored.expiresAt * MsPerSec > e.at)

\* C14 as stated: after any step other than the completion of a logout, a
\* record that was on disk and expired is still on disk and reported expired.
C14_ExpiredStaysExpired ==
    [][(authFile # NoAuth /\ getSession(Cur).expired
            /\ logoutCall'.n = logoutCall.n) =>
          (authFile' # NoAuth /\ getSession(Cur)'.expired)]_vars

\* C14: no call of isLoggedIn, getSessionWithRefresh, refreshToken or
\* processQueue deletes the credential record: after any step other than the
\* completion of a logout a record that was on disk is still on disk, and an
\* expired one is still reported as expired unless the step is a refresh
\* that succeeded.
C14_OnlyLogoutDeletes ==
    [][(authFile # NoAuth /\ logoutCall'.n = logoutCall.n) =>
          /\ authFile' # NoAuth
          /\ (getSession(Cur).expired
                /\ ~(\E e \in NewAuthLog : e.op = "refreshToken"
                                            /\ e.result.success))
               => getSession(Cur)'.expired]_vars

C14_Witness ==
    /\ authFile # NoAuth
    /\ getSession(Cur).expired
    /\ \E e \in authLog : e.op = "refreshToken" /\ ~e.result.success
    /\ \E r \in deliveries : r.result = "failed"

\* C15: getSessionWithRefresh starts a background refresh exactly when the
\* session token has more than 0 and less than 24 hours left, and then
\* returns the stored credential while the refresh is still in flight.
C15_BackgroundRefreshWindow ==
    /\ \A e \in authLog :
          e.op = "getSessionWithRefresh" =>
              /\ (e.branch = "background") <=> InRefreshWindow(e.stored, e.at)
              /\ e.branch = "background" =>
                    /\ e.returned = e.stored
                    /\ e.stored.githubToken # NULL => e.inFlight
    /\ \A e \in authLog :
          (e.op = "refreshToken" /\ e.mode # "direct") =>
              ((e.mode = "background") <=> InRefreshWindow(e.snapshot, e.calledAt))
    /\ \A r \in refreshes :
          r.mode # "direct" =>
              ((r.mode = "background") <=> InRefreshWindow(r.authData, r.calledAt))

C15_Witness ==
    /\ \E e \in authLog : /\ e.op = "getSessionWithRefresh"
                           /\ e.branch = "background"
                           /\ e.stored.expiresAt = TickSec + 10 * 60 * 60
                           /\ e.inFlight
    /\ \E e \in authLog : /\ e.op = "getSessionWithRefresh"
                           /\ e.branch = "valid"
                           /\ e.stored.expiresAt # NoNum

\* C16: when a background refresh fails (a status other than 200 or a
\* network error) the stored record is left as it was, and the caller of
\* getSessionWithRefresh has got the existing credential, without an error.
C16_FailedBackgroundRefreshKeepsRecord ==
    [][\A e \in NewAuthLog :
          (e.op = "refreshToken" /\ e.mode = "background"
              /\ ~e.result.success) =>
              /\ authFile' = authFile
              /\ \E g \in authLog' : /\ g.op = "getSessionWithRefresh"
                                      /\ g.id = e.id
                                      /\ g.returned = g.stored]_vars

C16_Witness ==
    \E e \in authLog :
        /\ e.op = "refreshToken"
        /\ e.mode = "background"
        /\ e.outcome = "neterr"
        /\ authFile = e.snapshot

\* C17: with an expired session token getSessionWithRefresh refreshes before
\* it returns: an invalid or missing identity token gives requiresReauth
\* true, a transport failure gives requiresReauth false, at most one request
\* is sent, and on success the stored and returned credential carries the
\* new token and the new expiry and is valid.
C17_SynchronousRefresh ==
    \A e \in authLog :
        (e.op = "refreshToken" /\ e.mode = "sync") =>
            /\ e.snapshot.expiresAt * MsPerSec < e.calledAt
            /\ e.requests <= 1
            /\ e.outcome \in {"invalid", "noIdentityToken"} =>
                  (e.returned.expired /\ e.returned.requiresReauth)
            /\ e.outcome = "neterr" =>
                  (e.returned.expired /\ ~e.returned.requiresReauth)
            /\ e.outcome = "ok" =>
                  /\ e.returned = e.stored
                  /\ e.returned.accessToken = "jwt2"
                  /\ e.returned.expiresAt = (e.at \div MsPerSec) + SessionLifetimeSec
                  /\ e.returned.expiresAt * MsPerSec > e.at

C17_Witness ==
    \E e \in authLog :
        /\ e.op = "refreshToken"
        /\ e.mode = "sync"
        /\ e.outcome = "ok"
        /\ authFile = e.returned
        /\ isLoggedIn(Cur)

\* ---- properties of secure-storage.js and of the journal file -------------
\* the result a read gives for a missing file
Absent(file) == IF file = "auth" THEN JNull ELSE EmptyQueueDoc

\* the value has a field of an envelope
EnvelopeLike(value) ==
    value.t = "object" /\ EnvelopeFields \cap DOMAIN value.fields # {}

\* the bytes the hex field of an envelope stands for
FieldBytes(content, field) ==
    LET f == Get(content.value, field) IN
    IF f.t = "string" THEN FromHex(f.s) ELSE <<>>

\* the content is not JSON, or it is an envelope that encrypt did not
\* produce: a malformed one, or one whose nonce, tag or ciphertext bytes are
\* not those of the envelope that was written
Corrupt(e) ==
    \/ e.before = Garbage
    \/ /\ e.before # NoFile
       /\ e.before.json
       /\ EnvelopeLike(e.before.value)
       /\ \/ e.pristine = NoFile
          \/ ~isEncrypted(e.before)
          \/ \E field \in EnvelopeFields :
                FieldBytes(e.before, field) # FieldBytes(e.pristine, field)

\* C18: decrypt(encrypt(x)) equals x, and an envelope of encrypt with one
\* byte of its ciphertext, tag or nonce changed makes decrypt return null.
C18_RoundTripAndTamper ==
    \A e \in storeLog :
        e.op = "decrypt" =>
            /\ e.before = e.pristine => e.result = e.x
            /\ e.before # e.pristine => e.result = JNull

\* C19: a credential file or journal that is not JSON, is a malformed
\* envelope or fails authenticated decryption reads like a missing file:
\* readSecureAuthData returns null, so that nobody is logged in, and
\* readQueue returns an empty queue.
C19_CorruptReadsAsAbsent ==
    \A e \in storeLog :
        (e.op = "read" /\ Corrupt(e)) =>
            /\ e.result = Absent(e.file)
            /\ e.file = "auth" =>
                  ~isLoggedIn([Cur EXCEPT !.authFile = AsAuthFile(e.result)])

\* C20: reading a file that holds the plaintext JSON of an earlier version
\* returns the parsed content and leaves an envelope of that content on
\* disk; the next read decrypts it, returns an equal value and rewrites
\* nothing.  A file that is neither an envelope nor JSON reads as absent.
C20_LegacyMigration ==
    \A e \in storeLog :
        e.op = "read" =>
            /\ e.before \in {JsonFile(CredentialDoc), JsonFile(QueueDoc)} =>
                  /\ e.result = e.before.value
                  /\ isEncrypted(e.after)
                  /\ decrypt(e.after) = e.before.value
                  /\ \A iv \in IvChoices :
                        LET again == IF e.file = "auth"
                                     THEN readSecureAuthData(e.after, iv)
                                     ELSE readQueueFile(e.after, iv)
                        IN again.result = e.result /\ again.disk = e.after
            /\ (e.by = "migration" /\ ~e.tampered /\ e.before = e.pristine
                   /\ e.x \in {CredentialDoc, QueueDoc}) =>
                  (e.result = e.x /\ e.after = e.before)
            /\ e.before = Garbage =>
                  (e.result = Absent(e.file) /\ e.after = e.before)

C20_Witness ==
    \E e \in storeLog :
        /\ e.op = "read"
        /\ e.by = "migration"
        /\ e.before = e.pristine
        /\ e.x = CredentialDoc
        /\ e.result = CredentialDoc
        /\ authDisk = e.before

\* C21: writes of the credential file and of the queue journal are atomic
\* replacements: whatever a reader finds in the file, while a write is running
\* or after the writer was killed, is the complete content from before the
\* write or the complete content being written.
C21_AtomicReplace ==
    \A e \in storeLog :
        (e.op = "read" /\ e.file \in {"auth", "queue"} /\ "old" \in DOMAIN e)
            => e.before \in {e.old, e.new}

\* C22: once a plaintext ledger has been read and parsed, the write that
\* follows (addSession or saveUISettings) leaves the ledger file in the
\* encrypted envelope format.
C22_LedgerWrittenEncrypted ==
    (writer.file = "ledger" /\ writer.pc = "closed" /\ writer.legacy)
        => isEncrypted(ledgerDisk)

\* C23: pollForToken sends at most 60 poll requests and always terminates:
\* it returns the token, throws the error it met, or throws the timeout error
\* once 60 attempts have produced no token.
C23_PollTerminates ==
    /\ [](poll.requests <= maxAttempts)
    /\ []((poll.pc = "threw" /\ poll.result = "timeout")
              => poll.requests = maxAttempts)
    /\ (poll.pc # "idle") ~> (poll.pc \in {"returned", "threw"})

\* the 60th request was answered and pollForToken is in its last wait
LastWait(p) == p.pc = "wait" /\ p.requests = maxAttempts

\* the step from p to q is the handling of a response
Answered(p, q) == p.pc = "request" /\ q.pc \in {"wait", "returned", "threw"}

\* what C24 says of every response but the 60th: the interval is the initial
\* one plus 5 for each slow_down and never goes down; an error or a token
\* ends the call with no further request
PollSteps(p, q) ==
    /\ q.interval = q.initial + SlowDownStep * q.slowDowns
    /\ q.interval >= p.interval
    /\ (Answered(p, q) /\ q.last = "error")
           => (q.pc = "threw" /\ q.result = "error"
               /\ q.requests = p.requests)
    /\ (Answered(p, q) /\ q.last = "token")
           => (q.pc = "returned" /\ q.result = "token"
               /\ q.requests = p.requests)
    /\ (Answered(p, q) /\ q.last \in {"authorization_pending", "slow_down"})
           => (q.pc = "wait" /\ q.requests = p.requests)
    /\ p.pc \in {"returned", "threw"} => q = p

\* after the wait the next poll goes out, and the wait was the interval
NextPollSent(p, q) ==
    /\ q.pc = "request"
    /\ q.requests = p.requests + 1
    /\ q.waited = p.interval

\* C24 as stated: every authorization_pending or slow_down response is
\* followed by another poll after the current interval, slow_down having
\* raised the interval by 5 seconds; any other error and a token end the
\* polling at once.
C24_PollResponses ==
    [][poll.pc # "idle" =>
          /\ PollSteps(poll, poll')
          /\ (poll.pc = "wait"
              /\ poll.last \in {"authorization_pending", "slow_down"})
                 => NextPollSent(poll, poll')]_vars

\* C24, amended: as stated for the responses to requests 1 to 59; after the
\* response to the 60th request pollForToken waits the interval once more and
\* throws the timeout error without another request.
C24_PollResponsesInBudget ==
    [][poll.pc # "idle" =>
          /\ PollSteps(poll, poll')
          /\ (poll.pc = "wait"
              /\ poll.last \in {"authorization_pending", "slow_down"})
                 => IF LastWait(poll)
                    THEN /\ poll'.pc = "threw"
                         /\ poll'.result = "timeout"
                         /\ poll'.requests = poll.requests
                         /\ poll'.waited = poll.interval
                    ELSE NextPollSent(poll, poll')]_vars

\* two slow_down responses and an authorization_pending one are behind the
\* call, and the poll after them went out after initial + 10 seconds
C24_Witness ==
    /\ poll.pc = "request"
    /\ poll.slowDowns = 2
    /\ poll.last = "authorization_pending"
    /\ poll.requests = 4
    /\ poll.waited = poll.initial + 2 * SlowDownStep

\* C25: with a clock that never goes back, successive getDuration() readings
\* of one session never decrease, stay the same within one pause, and each
\* equals the time since the start that the session did not spend paused.
C25_DurationMonotone ==
    [][EngineGetDuration =>
          LET p == calls.reading
              r == calls'.reading
              same == p.taken /\ r.clientId # NoNum /\ p.clientId = r.clientId
          IN /\ r.value = r.worked
             /\ same => r.value >= p.value
             /\ (same /\ p.isPaused /\ r.isPaused
                 /\ p.pauseStartTime = r.pauseStartTime)
                    => r.value = p.value]_vars

\* C26: pauseSession returns true exactly from Running and resumeSession
\* exactly from Paused; a refused call returns false and leaves every engine
\* field as it was; an accepted pause records the pause start, an accepted
\* resume adds the pause to the accumulator.
C26_PauseResumeGuards ==
    [][/\ EnginePause =>
            /\ calls'.result = (startTime # NoNum /\ ~isPaused)
            /\ calls'.result =>
                  /\ isPaused'
                  /\ pauseStartTime' = now
                  /\ UNCHANGED <<startTime, sessionClientId, pausedDuration>>
            /\ ~calls'.result => UNCHANGED engine
       /\ EngineResume =>
            /\ calls'.result = (startTime # NoNum /\ isPaused)
            /\ calls'.result =>
                  /\ ~isPaused'
                  /\ pausedDuration' = pausedDuration + (now - pauseStartTime)
                  /\ UNCHANGED <<startTime, sessionClientId>>
            /\ ~calls'.result => UNCHANGED engine]_vars

\* a pause of one tick was resumed, and a second resumeSession was refused
C26_Witness ==
    /\ calls.op = "resumeSession"
    /\ ~calls.result
    /\ startTime # NoNum
    /\ ~isPaused
    /\ pausedDuration = TickMs

\* the step is the one in which an endSession call resets the engine
Finalizes ==
    \E h \in H :
        /\ ends'[h] = "done"
        /\ ends[h] = "awaiting" \/ Len(ledger') > Len(ledger)

\* C27: between the start of a session and the step in which endSession
\* finalizes it, no call changes its clientId or its start time, a further
\* startSession included; the clientId and start of every ledger and queue
\* entry are the ones startSession generated.
C27_ClientIdStable ==
    [][/\ (sessionClientId # NoNum /\ ~Finalizes)
            => (sessionClientId' = sessionClientId /\ startTime' = startTime)
       /\ \A k \in 1..Len(ledger') :
             [clientId |-> ledger'[k].clientId, start |-> ledger'[k].start]
                 \in calls'.started
       /\ \A k \in 1..Len(queueFile'.sessions) :
             [clientId |-> queueFile'.sessions[k].clientId,
              start |-> queueFile'.sessions[k].start] \in calls'.started]_vars

\* C28: the step that completes endSession leaves the engine at its Idle
\* defaults with getDuration() = 0, and a startSession gives the session a
\* clientId no earlier session had, a paused accumulator of 0 and no pause.
C28_EndResetsEngine ==
    [][/\ Finalizes =>
            /\ engine' = <<NoNum, JNull, NoNum, FALSE, 0, NoNum>>
            /\ getDuration(Cur)' = 0
       /\ EngineStartSession =>
            /\ sessionClientId' \notin {s.clientId : s \in calls.started}
            /\ \A k \in 1..Len(ledger) :
                  ledger[k].clientId # sessionClientId'
            /\ startTime' = now
            /\ pausedDuration' = 0
            /\ ~isPaused'
            /\ pauseStartTime' = NoNum]_vars

\* a session was ended while paused, and a second one is running
C28_Witness ==
    /\ Len(ledger) = 1
    /\ \E f \in finalized : f.wasPaused /\ f.clientId = 1 /\ f.paused = TickMs
    /\ sessionClientId = 2
    /\ startTime # NoNum
    /\ pausedDuration = 0
    /\ ~isPaused

\* C29: the summary processQueue returns carries three counts, the entries
\* synced, the entries that failed and were retained and the entries dropped
\* at the attempt cap, and the three add up to the number of entries the
\* queue held when the drain started.
C29_SummaryCounts ==
    \A s \in summaries :
        /\ s.dropped \in {s.synced, s.failed, s.remaining}
        /\ s.synced + s.failed + s.remaining = s.total

\* the journal holds an entry of the session while the remote is out of reach
QueuedOffline(clientId) ==
    /\ network = "down"
    /\ \E k \in 1..Len(queueFile.sessions) :
          queueFile.sessions[k].clientId = clientId

\* the last run followed, which started with the remote in reach and was not
\* killed, has drained the queue and exited
Settled ==
    /\ phase = "exited"
    /\ nextUuid > MaxSessions + 1
    /\ network # "down"

\* C30: every session that is in the queue while the remote cannot be
\* reached is a remote record once connectivity has returned for good, with a
\* valid credential, and a run of the command line after that has drained the
\* queue.
C30_QueuedEventuallyUploaded ==
    \A clientId \in 0..(MaxSessions + 1) :
        [](QueuedOffline(clientId) => [](Settled => HasRow(Cur, clientId)))

\* the content is no ledger: text that does not parse, a value that is no
\* object, sessions that is no array, or an entry whose start or end is no
\* number
CorruptLedger(content) ==
    /\ content # NoFile
    /\ \/ ~content.json
       \/ content.value.t # "object"
       \/ Get(content.value, "sessions").t # "array"
       \/ \E k \in 1..Len(Get(content.value, "sessions").items) :
             LET session == Get(content.value, "sessions").items[k] IN
             \/ Get(session, "start").t # "number"
             \/ Get(session, "end").t # "number"

\* the ledger that holds the new session and nothing else
OnlyNewSession == JsonFile(JObj([sessions |-> JArr(<<StoreEntryDoc>>)]))

\* C31: a ledger file that does not parse or fails the shape validation makes
\* no ledger operation throw: it is read as the empty ledger, and the
\* addSession that follows writes a valid ledger that holds only the new
\* session, which is what the file holds once the write is complete.
C31_CorruptLedgerReplaced ==
    [][/\ \A e \in storeLog' :
              (e.file = "ledger" /\ CorruptLedger(e.before))
                  => (e.op = "read" /\ e.result = EmptyStoreDoc)
       /\ (FileAddSession /\ CorruptLedger(ledgerDisk))
              => (writer'.pc = "writing" /\ writer'.new = OnlyNewSession)
       /\ (FileWriteChunk /\ writer'.pc = "closed"
              /\ writer.new = OnlyNewSession)
              => (ledgerDisk' = OnlyNewSession
                  /\ ~CorruptLedger(ledgerDisk'))]_vars

\* a character of the command line is a disallowed one
HasMetacharacter(args) ==
    \E k \in 1..Len(args) :
        \E i \in 1..Len(args[k]) : args[k][i] \in SHELL_METACHARACTERS

\* C32: a command line that contains a disallowed shell metacharacter is
\* rejected before anything else happens: on that run no session is started,
\* no queue drain is launched, no child process is spawned (the run never
\* comes to its prompt or to tracking), and the ledger, the queue and the
\* remote stay as they were; a command to track ends the process at once.
C32_MetacharactersRejected ==
    [][HasMetacharacter(argv')
          => /\ startTime' = NoNum
             /\ sessionClientId' = NoNum
             /\ \A d \in D : drains'[d] = IdleDrain
             /\ phase' \in {"exited", "subcommand"}
             /\ argv'[1] \notin subcommands => phase' = "exited"
             /\ nextUuid' = nextUuid
             /\ ledger' = ledger
             /\ queueFile' = queueFile
             /\ tries' = tries
             /\ remote' = remote]_vars

\* a rejected run of a logged-in user whose queue holds an entry
C32_Witness ==
    /\ HasMetacharacter(argv)
    /\ phase = "exited"
    /\ authFile # NoAuth
    /\ repoInfo # NULL
    /\ Len(queueFile.sessions) > 0

\* nothing of the text is left once control characters, the special
\* characters and the white space around it are taken away
EmptyAfterSanitize(text) ==
    \A i \in 1..Len(text) :
        text[i] \in ControlCharacters \cup SpecialCharacters \cup WhiteSpace

\* C33: after setTaskName(name), for any argument, the current task name is
\* null or a non-empty string of at most 100 characters that holds no control
\* character (0x00-0x1F, 0x7F) and none of < > { } [ ] \ | grave $; an
\* argument that is no string, or of which nothing is left after sanitizing,
\* gives null.
C33_TaskNameSanitized ==
    /\ \/ currentTaskName = JNull
       \/ /\ currentTaskName.t = "string"
          /\ Len(currentTaskName.s) \in 1..MaxTaskNameLength
          /\ \A i \in 1..Len(currentTaskName.s) :
                currentTaskName.s[i]
                    \notin ControlCharacters \cup SpecialCharacters
    /\ taskInput.t # "string" => currentTaskName = JNull
    /\ (taskInput.t = "string" /\ EmptyAfterSanitize(taskInput.s))
           => currentTaskName = JNull

\* a name of more than 100 characters, with characters to strip, was cut
C33_Witness ==
    /\ taskInput.t = "string"
    /\ Len(taskInput.s) > MaxTaskNameLength
    /\ \E i \in 1..Len(taskInput.s) : taskInput.s[i] \in SpecialCharacters
    /\ currentTaskName.t = "string"
    /\ Len(currentTaskName.s) = MaxTaskNameLength

\* the sessions of a ledger file that parses and passes the validation
SessionsOf(content) == Get(content.value, "sessions").items

ValidLedger(content) == content # NoFile /\ ~CorruptLedger(content)

IsPrefix(s, t) == Len(s) <= Len(t) /\ SubSeq(t, 1, Len(s)) = s

\* C34: the ledger is append-only: on a valid ledger file addSession writes
\* the earlier entries unchanged and in order, followed by exactly one new
\* entry, and every other field (the uiSettings) unchanged; saveUISettings
\* writes the sessions unchanged; once the write is complete the file holds
\* what was written, and the sessions from before the operation are a prefix
\* of the sessions after it.
C34_LedgerAppendOnly ==
    [][/\ (FileAddSession /\ ValidLedger(ledgerDisk))
              => /\ writer'.pc = "writing"
                 /\ ValidLedger(writer'.new)
                 /\ SessionsOf(writer'.new)
                        = Append(SessionsOf(ledgerDisk), StoreEntryDoc)
                 /\ DOMAIN writer'.new.value.fields
                        = DOMAIN ledgerDisk.value.fields
                 /\ \A f \in DOMAIN ledgerDisk.value.fields \ {"sessions"} :
                        writer'.new.value.fields[f]
                            = ledgerDisk.value.fields[f]
       /\ (FileSaveUISettings /\ ValidLedger(ledgerDisk))
              => /\ writer'.pc = "writing"
                 /\ ValidLedger(writer'.new)
                 /\ SessionsOf(writer'.new) = SessionsOf(ledgerDisk)
                 /\ Get(writer'.new.value, "uiSettings") = UISettingsDoc
       /\ (FileWriteChunk /\ writer'.pc = "closed" /\ writer.file = "ledger"
              /\ ValidLedger(writer.old))
              => /\ ledgerDisk' = writer.new
                 /\ IsPrefix(SessionsOf(writer.old),
                             SessionsOf(ledgerDisk'))]_vars

\* a third session was added to the ledger of two sessions and settings
C34_Witness ==
    /\ writer.file = "ledger"
    /\ writer.pc = "closed"
    /\ writer.old = JsonFile(FullStoreDoc)
    /\ Len(SessionsOf(ledgerDisk)) = 3
    /\ Get(ledgerDisk.value, "uiSettings") = Get(FullStoreDoc, "uiSettings")

\* the journal q holds the entry eid
InJournal(q, eid) == \E k \in 1..Len(q.sessions) : q.sessions[k].eid = eid

\* a syncSession call for the entry has returned
Delivered(log, eid) == \E r \in log : r.eid = eid /\ r.result # "failed"

\* C35: no queue entry is lost through interleaving of queueSession and of
\* drains: an entry leaves the journal only when it was delivered to the
\* remote or has used up its 10 attempts (so a rewrite never erases an entry
\* its drain did not process), and an entry that a drain delivered never
\* comes back into the journal.
C35_NoEntryLostOrResurrected ==
    [][/\ \A k \in 1..Len(queueFile.sessions) :
              LET eid == queueFile.sessions[k].eid IN
              ~InJournal(queueFile', eid)
                  => \/ Delivered(deliveries', eid)
                     \/ tries'[eid] >= MaxSyncAttempts
       /\ \A k \in 1..Len(queueFile'.sessions) :
              LET eid == queueFile'.sessions[k].eid IN
              ~InJournal(queueFile, eid) => ~Delivered(deliveries', eid)]_vars

\* C36: the retry budget of a queue entry is used up by failed deliveries
\* only: a drain that starts and runs while there is no valid credential
\* (none stored, or an expired one) makes no remote call, leaves the
\* syncAttempts of every entry as they are and drops no entry.
C36_NoCredentialNoAttempt ==
    [][(~isLoggedIn(Cur) /\ \A d \in D : drains[d].pc = "idle")
          => /\ remote' = remote
             /\ \A d \in D : drains'[d].pc \notin {"repo", "check", "insert"}
             /\ \A k \in 1..Len(queueFile.sessions) :
                   \E j \in 1..Len(queueFile'.sessions) :
                       /\ queueFile'.sessions[j].eid
                              = queueFile.sessions[k].eid
                       /\ queueFile'.sessions[j].syncAttempts
                              = queueFile.sessions[k].syncAttempts]_vars

\* C37: once logout has completed the credential stays absent (no login
\* follows here): a refreshToken call that read the record before the logout
\* and gets its response after it writes no record back.
C37_AbsentAfterLogout ==
    logoutCall.pc = "done" => authFile = NoAuth

\* C38: in the re-login flow the credential that completeLogin wrote is on
\* disk and valid when login finishes and afterwards: the logout that was
\* started without being awaited never deletes it.
C38_NewCredentialKept ==
    loginPc \in {"profile", "done"}
        => (isLoggedIn(Cur) /\ authFile.accessToken = "jwt3")

\* C39: what a finalized session adds to the local statistics is its
\* duration as endSession computed it, pause time excluded: when the session
\* is added to the ledger, getLocalStats().totalMs grows by
\* end - start - paused time.
C39_StatsExcludePauses ==
    [][Len(ledger') = Len(ledger) + 1
          => getLocalStats(Cur)'.totalMs - getLocalStats(Cur).totalMs
                 = endSessionRecord(Cur).duration]_vars

\* addSession has replaced a ledger whose entry is null, and it has been read
C31_Witness ==
    /\ writer.file = "ledger"
    /\ writer.pc = "closed"
    /\ writer.old # NoFile
    /\ writer.old.json
    /\ validateStoreDataThrows(writer.old.value)
    /\ ledgerDisk = OnlyNewSession
    /\ \E e \in storeLog : e.op = "read" /\ e.before = OnlyNewSession

\* the remote rows of a ledger session: those with its start and its end
RowsOf(session) ==
    {k \in 1..Len(remote) : /\ remote[k].start_time = session.start
                            /\ remote[k].end_time = session.end}

\* the id a ledger session is delivered under
IdOf(session) ==
    IF session.clientId # NoNum THEN session.clientId
    ELSE legacyClientId(session.start, session.end)

====
